---- MODULE Spec2Model ----
(***************************************************************************)
(* The difference engine of Critic: the changeset job group                *)
(* (background/differenceengine/changeset.py), the database tables it      *)
(* reads and writes, and the runner / worker pool that drive it.           *)
(***************************************************************************)
EXTENDS Integers, FiniteSets, Sequences, TLC

\* ------------------------------------------------------------------ bounds
NFiles == 2
PoolSize == 2
MaxCrashes == 1
MaxFailures == 1

Files == 1..NFiles

\* ---------------------------------------------------------- static universe
\* SQL NULL (for_merge IS NULL, from_commit IS NULL, *_highlightfile IS NULL).
NULL == "NULL"

\* Changeset ids: the changeset a request asks for, and the reference
\* changeset of a merge.
Primary == "P"
Reference == "R"
CS == {Primary, Reference}

\* Commits: merge base -> parent -> merge (the primary changeset's to_commit).
Commits == {"base", "parent", "merge"}

\* A blob is identified by (file, commit): its sha1.
Sha(f, c) == <<f, c>>

\* Static classification of blobs by the collaborators (git, language
\* detection): odd files are text files of a known language.
IsText(f) == f % 2 = 1
HasLanguage(f) == f % 2 = 1

VARIABLES db, git, groups, published, notified, raised, crashes, failures,
          chunk

vars == <<db, git, groups, published, notified, raised, crashes, failures,
          chunk>>

\* ------------------------------------------------------------------- jobs
JobKinds == {"structure", "examine", "filediff", "analyze", "detect", "highlight"}

\* Job.key: the stable identifier of a job.
Key(j) == [kind |-> j.kind, cs |-> j.cs, files |-> j.files, commit |-> j.commit]

Keys(jobs) == {Key(j) : j \in jobs}

CalculateStructureDifference(cs, queue_content, is_for_merge) ==
    [kind |-> "structure", cs |-> cs, files |-> {}, commit |-> NULL,
     queue_content |-> queue_content, is_for_merge |-> is_for_merge]

ExamineFiles_for_files(cs, files) ==
    IF files = {} THEN {}
    ELSE {[kind |-> "examine", cs |-> cs, files |-> files, commit |-> NULL,
           queue_content |-> FALSE, is_for_merge |-> FALSE]}

CalculateFileDifference_for_files(cs, files) ==
    {[kind |-> "filediff", cs |-> cs, files |-> {f}, commit |-> NULL,
      queue_content |-> FALSE, is_for_merge |-> FALSE] : f \in files}

AnalyzeChangedLines_for_blocks(cs, f) ==
    {[kind |-> "analyze", cs |-> cs, files |-> {f}, commit |-> NULL,
      queue_content |-> FALSE, is_for_merge |-> FALSE]}

DetectFileLanguages_for_files(cs, files) ==
    IF files = {} THEN {}
    ELSE {[kind |-> "detect", cs |-> cs, files |-> files, commit |-> NULL,
           queue_content |-> FALSE, is_for_merge |-> FALSE]}

SyntaxHighlightFile(cs, sha) ==
    [kind |-> "highlight", cs |-> cs, files |-> {sha[1]}, commit |-> sha[2],
     queue_content |-> FALSE, is_for_merge |-> FALSE]

\* --------------------------------------------------------------- helpers
\* f with the value at k set to v (k is added to the domain when missing).
Put(f, k, v) == [x \in (DOMAIN f) \cup {k} |-> IF x = k THEN v ELSE f[x]]

\* f restricted to the keys in S.
Restrict(f, S) == [x \in (DOMAIN f) \cap S |-> f[x]]

\* ------------------------------------------------ JobGroup (generic part)
\* The jobs the group has handed to the pool and not yet seen finish.
InFlight(g) == g.running

\* Mutant: a job is rejected only when a job of its key is queued; the jobs
\* in flight are not looked at.
add_jobs_queued_only(g, jobs) ==
    [g EXCEPT !.not_started =
        @ \cup {j \in jobs : /\ Key(j) \notin g.failed
                             /\ Key(j) \notin Keys(g.not_started)}]

\* JobGroup.add_jobs: a job is rejected when a job of its key is already
\* queued or in flight, and when its key is a failed key.
add_jobs(g, jobs) ==
    [g EXCEPT !.not_started =
        @ \cup {j \in jobs : /\ Key(j) \notin g.failed
                             /\ Key(j) \notin Keys(g.not_started \cup InFlight(g))}]

\* JobGroup.should_calculate_remaining: nothing queued and nothing in flight.
JobGroup_should_calculate_remaining(g) ==
    g.not_started = {} /\ InFlight(g) = {}

\* Changeset.__init__
NewGroup ==
    [failed |-> {}, not_started |-> {}, running |-> {},
     syntax_highlight |-> FALSE, structure_complete |-> FALSE,
     content_complete |-> FALSE]

\* Mutant: the override is left out and the answer is JobGroup's.
should_calculate_remaining_generic(g) == JobGroup_should_calculate_remaining(g)

\* Changeset.should_calculate_remaining
should_calculate_remaining(g) ==
    IF ~g.structure_complete \/ ~g.content_complete
    THEN LET structure_complete ==
                 \A j \in g.not_started : j.kind # "structure"
             content_complete ==
                 \A j \in g.not_started : j.kind \notin {"filediff", "examine"}
         IN  IF structure_complete /\ ~g.structure_complete THEN TRUE
             ELSE IF content_complete /\ ~g.content_complete THEN TRUE
             ELSE JobGroup_should_calculate_remaining(g)
    ELSE JobGroup_should_calculate_remaining(g)

\* ------------------------------------------- calculate_remaining: queries
\* Mutant: the rows of changeseterrors are not loaded.
LoadFailed_memory_only(d, g, cs) == g.failed

\* SELECT job_key FROM changeseterrors WHERE changeset=...; self.failed.update
LoadFailed(d, g, cs) ==
    g.failed \cup {e.job_key : e \in d.changeseterrors[cs]}

\* for_merge_id == to_commit_id
IsPrimaryMerge(d, cs) ==
    d.changesets[cs].for_merge = d.changesets[cs].to_commit

\* Mutant: the request is not forced to False for merge differences.
content_difference_requested_any(d, cs) == cs \in DOMAIN d.changesetcontentdifferences

\* cscd.changeset IS NOT NULL, forced to False for merge differences.
content_difference_requested(d, cs) ==
    IF d.changesets[cs].for_merge # NULL THEN FALSE
    ELSE cs \in DOMAIN d.changesetcontentdifferences

\* The rows of the reference query.
ReferenceRows(d, cs) ==
    {r \in DOMAIN d.changesets :
        /\ d.changesets[r].to_commit = d.changesets[cs].from_commit
        /\ d.changesets[r].for_merge = d.changesets[cs].for_merge}

reference_id(d, cs) ==
    IF IsPrimaryMerge(d, cs) THEN CHOOSE r \in ReferenceRows(d, cs) : TRUE
    ELSE NULL

\* Mutant: the reference changeset is taken to be processed without a look
\* at its row.
reference_processed_unchecked(d, cs) == TRUE

reference_processed(d, cs) ==
    IF IsPrimaryMerge(d, cs) THEN d.changesets[reference_id(d, cs)].processed
    ELSE TRUE

\* "await reference.one()": the reference query of a primary merge changeset
\* must give exactly one row.
reference_raises(d, cs) ==
    IsPrimaryMerge(d, cs) /\ Cardinality(ReferenceRows(d, cs)) # 1

\* "await syntax_highlight_request.one()": the changeset must have its
\* changesethighlightrequests row.
syntax_highlight_request_raises(d, cs) ==
    cs \notin DOMAIN d.changesethighlightrequests

\* Mutant: the early return looks at complete instead of processed.
StructurePending_until_complete(d, cs) ==
    ~reference_processed(d, cs) \/ ~d.changesets[cs].complete

\* Mutant: the early return looks at the group's own changeset only.
StructurePending_own_only(d, cs) == ~d.changesets[cs].processed

\* "if not reference_processed or not structure_difference_processed: return"
StructurePending(d, cs) ==
    ~reference_processed(d, cs) \/ ~d.changesets[cs].processed

\* Mutant: the group's own structure-difference job is emitted whether or
\* not the changeset is processed.
StructureJobs_unconditional(d, cs) ==
    (IF ~reference_processed(d, cs)
     THEN {CalculateStructureDifference(reference_id(d, cs), FALSE, TRUE)}
     ELSE {})
    \cup
    {CalculateStructureDifference(
         cs, content_difference_requested(d, cs),
         d.changesets[cs].for_merge # NULL)}

\* The CalculateStructureDifference jobs of phase A.
StructureJobs(d, cs) ==
    (IF ~reference_processed(d, cs)
     THEN {CalculateStructureDifference(reference_id(d, cs), FALSE, TRUE)}
     ELSE {})
    \cup
    (IF ~d.changesets[cs].processed
     THEN {CalculateStructureDifference(
               cs, content_difference_requested(d, cs),
               d.changesets[cs].for_merge # NULL)}
     ELSE {})

\* DELETE FROM changesetfiles WHERE changeset=prune_id AND file NOT IN
\* (SELECT file FROM changesetfiles WHERE changeset=other_id); the rows of
\* changesetfiledifferences and changesetchangedlines of a deleted file go
\* with it.
Prune(d, prune_id, other_id) ==
    LET keep == d.changesetfiles[prune_id] \cap d.changesetfiles[other_id]
    IN  [d EXCEPT
            !.changesetfiles[prune_id] = keep,
            !.changesetfiledifferences[prune_id] = Restrict(@, keep),
            !.changesetchangedlines[prune_id] = Restrict(@, keep)]

\* Mutant: complete is written as "no failure recorded" instead of TRUE.
MarkComplete_unless_errors(d, id) ==
    [d EXCEPT !.changesets[id].complete = (d.changeseterrors[id] = {})]

\* UPDATE changesets SET complete=TRUE WHERE id=...
MarkComplete(d, id) ==
    [d EXCEPT !.changesets[id].complete = TRUE]

\* Mutant: only the primary changeset's files are pruned.
PhaseB_prune_primary_only(d, cs) ==
    IF IsPrimaryMerge(d, cs)
    THEN MarkComplete(MarkComplete(Prune(d, cs, reference_id(d, cs)),
                                   reference_id(d, cs)), cs)
    ELSE MarkComplete(d, cs)

\* Mutant: the reference changeset is pruned but not marked complete.
PhaseB_reference_not_marked(d, cs) ==
    IF IsPrimaryMerge(d, cs)
    THEN MarkComplete(Prune(Prune(d, cs, reference_id(d, cs)),
                            reference_id(d, cs), cs), cs)
    ELSE MarkComplete(d, cs)

\* The transaction of phase B.
PhaseB(d, cs) ==
    IF IsPrimaryMerge(d, cs)
    THEN LET ref == reference_id(d, cs)
             d1 == Prune(d, cs, ref)
             d2 == Prune(d1, ref, cs)
             d3 == MarkComplete(d2, ref)
         IN  MarkComplete(d3, cs)
    ELSE MarkComplete(d, cs)

\* The highlightfiles rows joined through changesetfiledifferences.
HighlightFileIds(d, cs, side) ==
    UNION {d.changesetfiledifferences[cs][f][side] :
             f \in DOMAIN d.changesetfiledifferences[cs]}

\* Mutant: highlighting counts as complete as soon as it is evaluated,
\* without the scan for highlightfiles still to be highlighted.
syntax_highlight_complete_before_flag_only(d, cs) ==
    LET r == d.changesethighlightrequests[cs]
    IN  IF ~r.requested THEN TRUE ELSE r.evaluated

syntax_highlight_complete_before(d, cs) ==
    LET r == d.changesethighlightrequests[cs]
    IN  IF ~r.requested THEN TRUE
        ELSE IF r.evaluated
        THEN ~\E h \in HighlightFileIds(d, cs, "old_highlightfile")
                       \cup HighlightFileIds(d, cs, "new_highlightfile") :
                   /\ d.highlightfiles[h].language
                   /\ ~d.highlightfiles[h].highlighted
        ELSE FALSE

\* Mutant: the persisted flag is not read and counts as false.
content_difference_complete_before_none(d, cs) == FALSE

\* SELECT complete FROM changesetcontentdifferences: no row gives None.
content_difference_complete_before(d, cs) ==
    IF cs \in DOMAIN d.changesetcontentdifferences
    THEN d.changesetcontentdifferences[cs]
    ELSE FALSE

\* changesetfiles rows not matched by a changesetfiledifferences row.
UnexaminedFiles(d, cs) ==
    {f \in d.changesetfiles[cs] : f \notin DOMAIN d.changesetfiledifferences[cs]}

\* changesetfiledifferences rows whose comparison_pending is true.
PendingFiles(d, cs) ==
    {f \in d.changesetfiles[cs] \cap DOMAIN d.changesetfiledifferences[cs] :
        d.changesetfiledifferences[cs][f].comparison_pending}

\* Mutant: a file counts as examined only when its comparison is done too.
all_files_examined_and_compared(d, cs) ==
    UnexaminedFiles(d, cs) = {} /\ PendingFiles(d, cs) = {}

\* Mutant: the result of the scan for unexamined files is not looked at.
all_files_examined_always(d, cs) == TRUE

all_files_examined(d, cs) == UnexaminedFiles(d, cs) = {}

\* Files with unanalyzed blocks of changed lines.
UnanalyzedFiles(d, cs) ==
    {f \in d.changesetfiles[cs] \cap DOMAIN d.changesetchangedlines[cs] :
        d.changesetchangedlines[cs][f]}

\* Mutant: the scan for pending comparisons is left out.
ContentDifferenceJobs_examine_only(d, cs, failed) ==
    {j \in ExamineFiles_for_files(cs, UnexaminedFiles(d, cs)) :
        Key(j) \notin failed}

\* content_difference_jobs, after the failed keys are removed.
ContentDifferenceJobs(d, cs, failed) ==
    {j \in ExamineFiles_for_files(cs, UnexaminedFiles(d, cs))
           \cup CalculateFileDifference_for_files(cs, PendingFiles(d, cs)) :
        Key(j) \notin failed}

\* analyze_changed_lines_jobs, after the failed keys are removed.
AnalyzeChangedLinesJobs(d, cs, failed) ==
    {j \in UNION {AnalyzeChangedLines_for_blocks(cs, f) :
                     f \in UnanalyzedFiles(d, cs)} :
        Key(j) \notin failed}

\* syntax_highlight_jobs, after the failed keys are removed.
SyntaxHighlightJobs(d, cs, failed) ==
    {j \in {SyntaxHighlightFile(cs, h) :
              h \in {x \in HighlightFileIds(d, cs, "old_highlightfile")
                           \cup HighlightFileIds(d, cs, "new_highlightfile") :
                        /\ d.highlightfiles[x].language
                        /\ ~d.highlightfiles[x].highlighted}} :
        Key(j) \notin failed}

\* (file_id, sha1) of the rows joined through changesetfiledifferences.
evaluated_files(d, cs) ==
    UNION {{<<f, h>> : h \in d.changesetfiledifferences[cs][f].old_highlightfile
                             \cup d.changesetfiledifferences[cs][f].new_highlightfile} :
             f \in DOMAIN d.changesetfiledifferences[cs]}

\* Mutant: language detection is scheduled for text files only.
DetectFileLanguagesJobs_text_only(d, cs, failed) ==
    LET changed_files ==
            d.changesetfiles[cs] \cap DOMAIN d.changesetfiledifferences[cs]
        todo ==
            {f \in changed_files :
                /\ IsText(f)
                /\ \/ <<f, Sha(f, d.changesets[cs].from_commit)>>
                          \notin evaluated_files(d, cs)
                   \/ <<f, Sha(f, d.changesets[cs].to_commit)>>
                          \notin evaluated_files(d, cs)}
    IN  {j \in DetectFileLanguages_for_files(cs, todo) : Key(j) \notin failed}

\* Mutant: no file version is skipped.
DetectFileLanguagesJobs_all_versions(d, cs, failed) ==
    {j \in DetectFileLanguages_for_files(
              cs, d.changesetfiles[cs] \cap DOMAIN d.changesetfiledifferences[cs]) :
        Key(j) \notin failed}

\* detect_file_language_jobs, after the failed keys are removed.
DetectFileLanguagesJobs(d, cs, failed) ==
    LET changed_files ==
            d.changesetfiles[cs] \cap DOMAIN d.changesetfiledifferences[cs]
        todo ==
            {f \in changed_files :
                \/ <<f, Sha(f, d.changesets[cs].from_commit)>>
                       \notin evaluated_files(d, cs)
                \/ <<f, Sha(f, d.changesets[cs].to_commit)>>
                       \notin evaluated_files(d, cs)}
    IN  {j \in DetectFileLanguages_for_files(cs, todo) : Key(j) \notin failed}

\* ------------------------------------------------- calculate_remaining
\* Phases C and D of calculate_remaining, from the database dB that the
\* phase B transaction left: the content difference scan and its
\* transaction, then the highlight scan and its transaction.  g2 is the group
\* and failed the failed keys when phase B is done.  pinged_at is the
\* database as committed when self.runner.find_new_incomplete() is called:
\* the call is inside the transaction of phase B, whose writes are committed
\* when the block is left, so it is d, the database the call found.
remaining_content_and_highlight(d, dB, g2, failed, cs) ==
    LET evaluated_before == dB.changesethighlightrequests[cs].evaluated
        complete_before == syntax_highlight_complete_before(dB, cs)
        content_before == content_difference_complete_before(dB, cs)
        examined == all_files_examined(dB, cs)
        content_jobs == ContentDifferenceJobs(dB, cs, failed)
        analyze_jobs == AnalyzeChangedLinesJobs(dB, cs, failed)
        set_content == content_jobs = {} /\ ~content_before
        dC == IF set_content /\ cs \in DOMAIN dB.changesetcontentdifferences
              THEN [dB EXCEPT !.changesetcontentdifferences[cs] = TRUE]
              ELSE dB
        g3 == IF content_jobs # {} THEN add_jobs(g2, content_jobs)
              ELSE IF ~content_before
              THEN [g2 EXCEPT !.content_complete = TRUE]
              ELSE g2
        g4 == add_jobs(g3, analyze_jobs)
        phaseD == examined /\ ~complete_before
        highlight_jobs ==
            IF phaseD THEN SyntaxHighlightJobs(dC, cs, failed) ELSE {}
        detect_jobs ==
            IF phaseD /\ ~evaluated_before
            THEN DetectFileLanguagesJobs(dC, cs, failed) ELSE {}
        g5 == add_jobs(add_jobs(g4, highlight_jobs), detect_jobs)
        evaluated == examined /\ detect_jobs = {}
        complete == examined /\ highlight_jobs = {}
        dD == IF phaseD /\ evaluated /\ ~evaluated_before
              THEN [dC EXCEPT
                      !.changesethighlightrequests[cs].evaluated = evaluated]
              ELSE dC
        notifications ==
            <<"update">>
            \o (IF set_content THEN <<"update">> ELSE <<>>)
            \o (IF phaseD /\ complete THEN <<"update">> ELSE <<>>)
    IN  [db |-> dD, grp |-> g5, update |-> TRUE,
         notifications |-> notifications, raised |-> FALSE,
         find_new |-> IsPrimaryMerge(d, cs), pinged_at |-> d,
         emitted |-> content_jobs \cup analyze_jobs
                     \cup highlight_jobs \cup detect_jobs,
         commits |-> {dB, dC, dD}]

\* The call's result: the database after its transactions, the group after
\* its add_job(s) calls and flag updates, whether update_changeset was
\* published, whether the runner was pinged (find_new_incomplete), the jobs
\* it passed to add_job / add_jobs, and the database after each of its
\* transactions (commits).
calculate_remaining(d, g0, cs) ==
    LET failed == LoadFailed(d, g0, cs)
        row == d.changesets[cs]
        g1 == [g0 EXCEPT !.failed = failed,
                         !.structure_complete = @ \/ row.complete]
    IN  IF reference_raises(d, cs)
        THEN [db |-> d, grp |-> g1, update |-> FALSE, find_new |-> FALSE,
              notifications |-> <<>>, emitted |-> {}, commits |-> {},
              raised |-> TRUE]
        ELSE IF syntax_highlight_request_raises(d, cs)
        THEN [db |-> d, grp |-> add_jobs(g1, StructureJobs(d, cs)),
              update |-> FALSE, find_new |-> FALSE,
              notifications |-> <<>>, emitted |-> StructureJobs(d, cs),
              commits |-> {}, raised |-> TRUE]
        ELSE
        LET structure_jobs == StructureJobs(d, cs)
            g2 == add_jobs(
                    [g1 EXCEPT !.syntax_highlight =
                                 d.changesethighlightrequests[cs].requested],
                    structure_jobs)
        IN  IF StructurePending(d, cs)
            THEN [db |-> d, grp |-> g2, update |-> FALSE,
                  find_new |-> FALSE, notifications |-> <<>>,
                  emitted |-> structure_jobs, commits |-> {},
                  raised |-> FALSE]
            ELSE CHOOSE r \in
                    {remaining_content_and_highlight(d, dB, g, f, cs) :
                        dB \in {PhaseB(d, cs)}, g \in {g2},
                        f \in {failed}} : TRUE

\* --------------------------------------------------------- find_incomplete
\* Mutant: the structure query does not skip the reference changeset of a
\* merge.
find_incomplete_with_references(d) ==
    {c \in DOMAIN d.changesets :
        \/ ~d.changesets[c].complete
        \/ /\ d.changesets[c].complete
           /\ c \in DOMAIN d.changesetcontentdifferences
           /\ ~d.changesetcontentdifferences[c]
        \/ /\ d.changesets[c].complete
           /\ c \in DOMAIN d.changesethighlightrequests
           /\ d.changesethighlightrequests[c].requested
           /\ ~d.changesethighlightrequests[c].evaluated
        \/ /\ d.changesets[c].complete
           /\ c \in DOMAIN d.changesethighlightrequests
           /\ d.changesethighlightrequests[c].requested
           /\ \E h \in HighlightFileIds(d, c, "old_highlightfile")
                       \cup HighlightFileIds(d, c, "new_highlightfile") :
                  ~d.highlightfiles[h].highlighted}

\* Mutant: the structure query looks at processed instead of complete.
find_incomplete_unprocessed_only(d) ==
    {c \in DOMAIN d.changesets :
        \/ /\ ~d.changesets[c].processed
           /\ \/ d.changesets[c].for_merge = NULL
              \/ d.changesets[c].for_merge = d.changesets[c].to_commit
        \/ /\ d.changesets[c].complete
           /\ c \in DOMAIN d.changesetcontentdifferences
           /\ ~d.changesetcontentdifferences[c]
        \/ /\ d.changesets[c].complete
           /\ c \in DOMAIN d.changesethighlightrequests
           /\ d.changesethighlightrequests[c].requested
           /\ ~d.changesethighlightrequests[c].evaluated
        \/ /\ d.changesets[c].complete
           /\ c \in DOMAIN d.changesethighlightrequests
           /\ d.changesethighlightrequests[c].requested
           /\ \E h \in HighlightFileIds(d, c, "old_highlightfile")
                       \cup HighlightFileIds(d, c, "new_highlightfile") :
                  ~d.highlightfiles[h].highlighted}

find_incomplete(d) ==
    {c \in DOMAIN d.changesets :
        \/ /\ ~d.changesets[c].complete
           /\ \/ d.changesets[c].for_merge = NULL
              \/ d.changesets[c].for_merge = d.changesets[c].to_commit
        \/ /\ d.changesets[c].complete
           /\ c \in DOMAIN d.changesetcontentdifferences
           /\ ~d.changesetcontentdifferences[c]
        \/ /\ d.changesets[c].complete
           /\ c \in DOMAIN d.changesethighlightrequests
           /\ d.changesethighlightrequests[c].requested
           /\ ~d.changesethighlightrequests[c].evaluated
        \/ /\ d.changesets[c].complete
           /\ c \in DOMAIN d.changesethighlightrequests
           /\ d.changesethighlightrequests[c].requested
           /\ \E h \in HighlightFileIds(d, c, "old_highlightfile")
                       \cup HighlightFileIds(d, c, "new_highlightfile") :
                  ~d.highlightfiles[h].highlighted}

\* ------------------------------------------------------------ Job.run
\* CalculateStructureDifference: the file list and the initial blocks of
\* changed lines are inserted and processed is set, in one transaction.
RunStructure(d, tree, j) ==
    [d EXCEPT
        !.changesetfiles[j.cs] = tree[j.cs],
        !.changesetchangedlines[j.cs] =
            [f \in {x \in tree[j.cs] : IsText(x)} |-> TRUE],
        !.changesets[j.cs].processed = TRUE]

\* ExamineFiles: a changesetfiledifferences row for every file of the batch,
\* comparison_pending when the blob pair is to be line-diffed.
RunExamine(d, j) ==
    LET new == (j.files \cap d.changesetfiles[j.cs])
               \ DOMAIN d.changesetfiledifferences[j.cs]
    IN  [d EXCEPT !.changesetfiledifferences[j.cs] =
            [f \in (DOMAIN @) \cup new |->
                IF f \in new
                THEN [comparison_pending |-> IsText(f),
                      old_highlightfile |-> {}, new_highlightfile |-> {}]
                ELSE @[f]]]

\* CalculateFileDifference: replaces the file's blocks (analysis NULL) and
\* clears comparison_pending.
RunFileDifference(d, j) ==
    LET f == CHOOSE x \in j.files : TRUE
    IN  IF f \in DOMAIN d.changesetfiledifferences[j.cs]
        THEN [d EXCEPT
                !.changesetfiledifferences[j.cs][f].comparison_pending = FALSE,
                !.changesetchangedlines[j.cs] = Put(@, f, TRUE)]
        ELSE d

\* AnalyzeChangedLines: writes analysis for the file's blocks.
RunAnalyze(d, j) ==
    LET f == CHOOSE x \in j.files : TRUE
    IN  IF f \in DOMAIN d.changesetchangedlines[j.cs]
        THEN [d EXCEPT !.changesetchangedlines[j.cs][f] = FALSE]
        ELSE d

\* DetectFileLanguages: creates or reuses the highlightfiles row of each file
\* version and references it from the changesetfiledifferences row.
RunDetect(d, j) ==
    LET fs == j.files \cap DOMAIN d.changesetfiledifferences[j.cs]
        old(f) == Sha(f, d.changesets[j.cs].from_commit)
        new(f) == Sha(f, d.changesets[j.cs].to_commit)
        shas == {old(f) : f \in fs} \cup {new(f) : f \in fs}
    IN  [d EXCEPT
            !.changesetfiledifferences[j.cs] =
                [f \in DOMAIN @ |->
                    IF f \in fs
                    THEN [@[f] EXCEPT !.old_highlightfile = {old(f)},
                                      !.new_highlightfile = {new(f)}]
                    ELSE @[f]],
            !.highlightfiles =
                [h \in (DOMAIN @) \cup shas |->
                    IF h \in DOMAIN @ THEN @[h]
                    ELSE [language |-> HasLanguage(h[1]),
                          highlighted |-> FALSE]]]

\* SyntaxHighlightFile: stores the rendering and sets highlighted.
RunHighlight(d, j) ==
    LET h == Sha(CHOOSE x \in j.files : TRUE, j.commit)
    IN  IF h \in DOMAIN d.highlightfiles
        THEN [d EXCEPT !.highlightfiles[h].highlighted = TRUE]
        ELSE d

Run(d, tree, j) ==
    CASE j.kind = "structure" -> RunStructure(d, tree, j)
      [] j.kind = "examine"   -> RunExamine(d, j)
      [] j.kind = "filediff"  -> RunFileDifference(d, j)
      [] j.kind = "analyze"   -> RunAnalyze(d, j)
      [] j.kind = "detect"    -> RunDetect(d, j)
      [] j.kind = "highlight" -> RunHighlight(d, j)

\* The follow-up jobs of a finished job.
FollowUps(tree, j) ==
    CASE j.kind = "structure" ->
            IF j.queue_content
            THEN ExamineFiles_for_files(j.cs, tree[j.cs]) ELSE {}
      [] j.kind = "examine" ->
            CalculateFileDifference_for_files(
                j.cs, {f \in j.files : IsText(f)})
      [] j.kind = "filediff" ->
            AnalyzeChangedLines_for_blocks(j.cs, CHOOSE x \in j.files : TRUE)
      [] OTHER -> {}

\* Changeset.process_traceback
process_traceback(d, cs, j, fatal) ==
    [d EXCEPT !.changeseterrors[cs] =
        @ \cup {[job_key |-> Key(j), fatal |-> fatal]}]

\* ------------------------------------------------------------------ Init
NoRows == [x \in {} |-> FALSE]

\* No handler of a group ran in the step: nothing was published.
NoNotifications == [cs |-> NULL, sent |-> <<>>]

\* Nothing has been analysed.
NoChunk ==
    [deletedLines |-> <<>>, insertedLines |-> <<>>, called |-> "none",
     moved |-> FALSE, matches |-> <<>>, final |-> <<>>, result |-> <<>>,
     analysis |-> {}, lines |-> <<>>]

InitChangesets(merge) ==
    IF merge
    THEN [c \in CS |->
            [from_commit |-> IF c = Primary THEN "parent" ELSE "base",
             to_commit |-> IF c = Primary THEN "merge" ELSE "parent",
             for_merge |-> "merge", processed |-> FALSE, complete |-> FALSE]]
    ELSE [c \in {Primary} |->
            [from_commit |-> "parent", to_commit |-> "merge",
             for_merge |-> NULL, processed |-> FALSE, complete |-> FALSE]]

InitDb(changesets, content, highlight, requests) ==
    [changesets |-> changesets,
     changesetcontentdifferences |-> [c \in content |-> FALSE],
     changesethighlightrequests |->
        [c \in requests |->
            [requested |-> c \in highlight, evaluated |-> FALSE]],
     changesetfiles |-> [c \in CS |-> {}],
     changesetfiledifferences |-> [c \in CS |-> NoRows],
     changesetchangedlines |-> [c \in CS |-> NoRows],
     highlightfiles |-> NoRows,
     changeseterrors |-> [c \in CS |-> {}]]

\* The runner has started nothing, and git holds the tree differences.
InitRunner ==
    /\ git \in [CS -> SUBSET Files]
    /\ DOMAIN db.changesets = {Primary} => git[Reference] = {}
    /\ groups = NoRows
    /\ published = [c \in CS |-> "none"]
    /\ notified = NoNotifications
    /\ raised = FALSE
    /\ crashes = 0
    /\ failures = 0
    /\ chunk = NoChunk

Init ==
    /\ \E merge \in BOOLEAN :
       \E content \in {{}, DOMAIN InitChangesets(merge)} :
       \E highlight \in SUBSET {Primary} :
          db = InitDb(InitChangesets(merge), content, highlight,
                      DOMAIN InitChangesets(merge))
    /\ InitRunner

\* The databases of Init, and those in which the changesethighlightrequests
\* row of a changeset or the reference changeset of a merge is missing.
RowsInit ==
    /\ \E merge \in BOOLEAN :
       \E changesets \in {InitChangesets(merge),
                          Restrict(InitChangesets(merge), {Primary})} :
       \E content \in {{}, DOMAIN changesets} :
       \E requests \in SUBSET DOMAIN changesets :
       \E highlight \in SUBSET ({Primary} \cap requests) :
          db = InitDb(changesets, content, highlight, requests)
    /\ InitRunner

\* --------------------------------------------------------------- actions
Busy == UNION {InFlight(groups[c]) : c \in DOMAIN groups}

\* Changeset.start publishes monitor_changeset.
start == <<"monitor">>

\* Mutant: a batch of finished jobs is not announced.
jobs_finished_silent == <<>>

\* Changeset.jobs_finished publishes update_changeset.
jobs_finished == <<"update">>

\* Changeset.group_finished publishes forget_changeset.
group_finished == <<"forget">>

\* The handler published sent; when nothing is queued or in flight the group
\* is finished and dropped, otherwise it stays tracked.
Settle(cs, g, sent) ==
    IF g.not_started = {} /\ InFlight(g) = {}
    THEN /\ groups' = Restrict(groups, (DOMAIN groups) \ {cs})
         /\ published' = [published EXCEPT ![cs] = "forget"]
         /\ notified' = [cs |-> cs, sent |-> sent \o group_finished]
    ELSE /\ groups' = Put(groups, cs, g)
         /\ published' = IF sent = <<>> THEN published
                         ELSE [published EXCEPT ![cs] = sent[Len(sent)]]
         /\ notified' = [cs |-> cs, sent |-> sent]

\* The runner starts a group for a changeset find_incomplete returns:
\* Changeset.start, then the initial calculate_remaining.
StartGroup(cs) ==
    /\ cs \in find_incomplete(db)
    /\ cs \notin DOMAIN groups
    /\ \E r \in {calculate_remaining(db, NewGroup, cs)} :
           /\ db' = r.db
           /\ Settle(cs, r.grp, start \o r.notifications)
           /\ raised' = (raised \/ r.raised)
    /\ UNCHANGED <<git, crashes, failures, chunk>>

\* JobGroup.start_next: a queued job goes to a free worker.
StartJob(cs, j) ==
    /\ cs \in DOMAIN groups
    /\ j \in groups[cs].not_started
    /\ Cardinality(Busy) < PoolSize
    /\ groups' = [groups EXCEPT ![cs].not_started = @ \ {j},
                                ![cs].running = @ \cup {j}]
    /\ notified' = NoNotifications
    /\ UNCHANGED <<db, git, published, raised, crashes, failures, chunk>>

\* JobGroup: after a finished job, calculate_remaining runs when
\* should_calculate_remaining says so.
HandleFinished(d, g, cs) ==
    IF should_calculate_remaining(g)
    THEN calculate_remaining(d, g, cs)
    ELSE [db |-> d, grp |-> g, update |-> FALSE, find_new |-> FALSE,
          notifications |-> <<>>, raised |-> FALSE,
          emitted |-> {}, commits |-> {}]

\* The group after job j succeeded: j is no longer in flight and its
\* follow-ups are queued.
AfterSuccess(g, tree, j) ==
    add_jobs([g EXCEPT !.running = @ \ {j}], FollowUps(tree, j))

\* A job finishes and the supervisor handles it: its results are committed,
\* its follow-ups are queued, jobs_finished publishes, calculate_remaining
\* runs when should_calculate_remaining says so, and group_finished fires
\* when nothing is queued or in flight afterwards.
JobSucceeded(cs, j) ==
    /\ cs \in DOMAIN groups
    /\ j \in groups[cs].running
    /\ \E d \in {Run(db, git, j)} :
       \E g \in {AfterSuccess(groups[cs], git, j)} :
       \E r \in {HandleFinished(d, g, cs)} :
           /\ db' = r.db
           /\ Settle(cs, r.grp, jobs_finished \o r.notifications)
           /\ raised' = (raised \/ r.raised)
    /\ UNCHANGED <<git, crashes, failures, chunk>>

\* Job.run raises: nothing is committed; the supervisor records the
\* traceback (process_traceback) and handles the job as finished.
JobFailed(cs, j, fatal) ==
    /\ cs \in DOMAIN groups
    /\ j \in groups[cs].running
    /\ failures < MaxFailures
    /\ failures' = failures + 1
    /\ \E d \in {process_traceback(db, cs, j, fatal)} :
       \E g \in {[groups[cs] EXCEPT
                     !.running = @ \ {j},
                     !.failed = IF fatal THEN @ \cup {Key(j)} ELSE @]} :
       \E r \in {HandleFinished(d, g, cs)} :
           /\ db' = r.db
           /\ Settle(cs, r.grp, jobs_finished \o r.notifications)
           /\ raised' = (raised \/ r.raised)
    /\ UNCHANGED <<git, crashes, chunk>>

\* The database states a stop of the process can leave behind: the current
\* one, or the one after any commit of a handler that was running (the
\* result of a job, each transaction of calculate_remaining).
CrashPoints ==
    {db}
    \cup UNION {calculate_remaining(db, NewGroup, cs).commits :
                  cs \in find_incomplete(db) \ DOMAIN groups}
    \cup UNION {UNION {{Run(db, git, j)}
                       \cup HandleFinished(
                                Run(db, git, j),
                                AfterSuccess(groups[cs], git, j), cs).commits :
                         j \in groups[cs].running} :
                  cs \in DOMAIN groups}

\* The process stops: every group and every job in flight is lost, the
\* database keeps what was committed.
Crash ==
    /\ crashes < MaxCrashes
    /\ crashes' = crashes + 1
    /\ db' \in CrashPoints
    /\ groups' = NoRows
    /\ published' = [c \in CS |-> "none"]
    /\ notified' = NoNotifications
    /\ UNCHANGED <<git, raised, failures, chunk>>

Next ==
    \/ \E cs \in CS : StartGroup(cs)
    \/ \E cs \in DOMAIN groups : \E j \in groups[cs].not_started : StartJob(cs, j)
    \/ \E cs \in DOMAIN groups : \E j \in groups[cs].running : JobSucceeded(cs, j)
    \/ \E cs \in DOMAIN groups : \E j \in groups[cs].running :
          \E fatal \in BOOLEAN : JobFailed(cs, j, fatal)
    \/ Crash

Spec == Init /\ [][Next]_vars

\* The same engine, started on a database that may miss rows.
RowsSpec == RowsInit /\ [][Next]_vars

\* --------------------------------------------- fair specifications
StartSomeJob(cs) ==
    /\ cs \in DOMAIN groups
    /\ \E j \in groups[cs].not_started : StartJob(cs, j)

SomeJobSucceeded(cs) ==
    /\ cs \in DOMAIN groups
    /\ \E j \in groups[cs].running : JobSucceeded(cs, j)

SomeJobFailed(cs) ==
    /\ cs \in DOMAIN groups
    /\ \E j \in groups[cs].running : \E fatal \in BOOLEAN : JobFailed(cs, j, fatal)

\* Every job succeeds and the process keeps running.
LiveNext ==
    \/ \E cs \in CS : StartGroup(cs)
    \/ \E cs \in CS : StartSomeJob(cs)
    \/ \E cs \in CS : SomeJobSucceeded(cs)

\* The runner keeps polling, the pool gives every queued job a worker and
\* every started job returns: some step that changes the state is taken
\* whenever one is possible.
LiveSpec == Init /\ [][LiveNext]_vars /\ WF_vars(LiveNext)

\* Jobs may fail (at most MaxFailures times) and the process keeps running.
FailNext ==
    \/ \E cs \in CS : StartGroup(cs)
    \/ \E cs \in CS : StartSomeJob(cs)
    \/ \E cs \in CS : SomeJobSucceeded(cs)
    \/ \E cs \in CS : SomeJobFailed(cs)

FailSpec == Init /\ [][FailNext]_vars /\ WF_vars(LiveNext)

\* ================================================================ claims
IsMerge == Reference \in DOMAIN db.changesets

JobsOf(g) == g.not_started \cup g.running

ErrorKeys(cs) == {e.job_key : e \in db.changeseterrors[cs]}

\* C1: in every reachable database state, every changeset row with
\* complete=true also has processed=true.
C1_CompleteImpliesProcessed ==
    \A c \in DOMAIN db.changesets :
        db.changesets[c].complete => db.changesets[c].processed

\* C1 witness: phase B of a primary merge changeset has marked the reference
\* changeset and the primary changeset complete.
C1_Witness ==
    /\ IsMerge
    /\ db.changesets[Reference].complete
    /\ db.changesets[Primary].complete

FailedContentFiles(c) ==
    UNION {k.files : k \in {x \in ErrorKeys(c) :
                               x.kind \in {"examine", "filediff"} /\ x.cs = c}}

GroupOf(cs) == IF cs \in DOMAIN groups THEN groups[cs] ELSE NewGroup

Callable == (DOMAIN groups) \cup find_incomplete(db)

\* C3: once a changeseterrors row for (changeset, job_key) exists, no later
\* calculate_remaining call of the changeset's group adds a job with that
\* key to the group, for every job kind.
C3_NoFailedKeyAdded ==
    \A cs \in Callable :
        \A j \in calculate_remaining(db, GroupOf(cs), cs).grp.not_started
                 \ GroupOf(cs).not_started :
            Key(j) \notin ErrorKeys(cs)

\* C3 witness: a group is tracked whose changeset has a recorded failure of
\* a job that the database rows still call for.
C3_Witness ==
    \E cs \in Callable :
        \E k \in ErrorKeys(cs) :
            k \in Keys(StructureJobs(db, cs)
                       \cup ContentDifferenceJobs(db, cs, {})
                       \cup AnalyzeChangedLinesJobs(db, cs, {})
                       \cup SyntaxHighlightJobs(db, cs, {})
                       \cup DetectFileLanguagesJobs(db, cs, {}))

\* C4: after phase B of a primary merge changeset, changesetfiles of the
\* primary and of the reference hold the same set of files, the
\* intersection of the two file sets before filtering.
C4_MergeFilter ==
    (IsMerge /\ db.changesets[Primary].complete) =>
        /\ db.changesetfiles[Primary] = git[Primary] \cap git[Reference]
        /\ db.changesetfiles[Reference] = git[Primary] \cap git[Reference]

\* C4 witness: phase B has run where a file was touched by one side only and
\* another by both.
C4_Witness ==
    /\ IsMerge
    /\ db.changesets[Primary].complete
    /\ git[Primary] \cap git[Reference] # {}
    /\ git[Primary] # git[Reference]

\* C5: phase B is atomic: no committed state shows only one of the primary /
\* reference pair complete, or a complete primary merge changeset with
\* unfiltered files.
C5_PhaseBAtomic ==
    IsMerge =>
        /\ db.changesets[Primary].complete = db.changesets[Reference].complete
        /\ db.changesets[Primary].complete =>
              db.changesetfiles[Primary] = db.changesetfiles[Reference]
        /\ ~db.changesets[Primary].complete =>
              \A c \in CS : db.changesets[c].processed =>
                  db.changesetfiles[c] = git[c]

\* C5 witness: both structure differences are processed and unfiltered, the
\* state phase B starts from.
C5_Witness ==
    /\ IsMerge
    /\ db.changesets[Primary].processed
    /\ db.changesets[Reference].processed
    /\ ~db.changesets[Primary].complete
    /\ git[Primary] # git[Reference]

Kinds(g) == {j.kind : j \in JobsOf(g)}

ContentKinds == {"examine", "filediff", "analyze"}
HighlightKinds == {"detect", "highlight"}

\* C6 (as claimed): for one changeset, jobs of two different phases are
\* never pending or in flight at the same time.
C6_Original ==
    \A cs \in DOMAIN groups :
        /\ "structure" \in Kinds(groups[cs]) =>
              Kinds(groups[cs]) \cap (ContentKinds \cup HighlightKinds) = {}
        /\ Kinds(groups[cs]) \cap ContentKinds # {} =>
              Kinds(groups[cs]) \cap HighlightKinds = {}

\* C6 (amended): no CalculateStructureDifference job is pending or in flight
\* together with a content or highlight job, and no ExamineFiles job
\* together with a highlight job; CalculateFileDifference and
\* AnalyzeChangedLines jobs may run beside DetectFileLanguages and
\* SyntaxHighlightFile jobs.
C6_PhaseOrder ==
    \A cs \in DOMAIN groups :
        /\ "structure" \in Kinds(groups[cs]) =>
              Kinds(groups[cs]) \cap (ContentKinds \cup HighlightKinds) = {}
        /\ "examine" \in Kinds(groups[cs]) =>
              Kinds(groups[cs]) \cap HighlightKinds = {}

\* C6 witness: a file-difference job and a highlight-phase job of one
\* changeset are pending or in flight together.
C6_Witness ==
    \E cs \in DOMAIN groups :
        /\ "filediff" \in Kinds(groups[cs])
        /\ Kinds(groups[cs]) \cap HighlightKinds # {}

\* group_finished has fired for cs and no group of cs is tracked.
Finished(cs) == cs \notin DOMAIN groups /\ published[cs] = "forget"

ReferencedHighlightFiles(cs) ==
    HighlightFileIds(db, cs, "old_highlightfile")
        \cup HighlightFileIds(db, cs, "new_highlightfile")

\* The completion flags calculate_remaining drives a changeset to.
FlagsDone(cs) ==
    /\ cs \in DOMAIN db.changesets
    /\ db.changesets[cs].processed
    /\ db.changesets[cs].complete
    /\ cs \in DOMAIN db.changesetcontentdifferences =>
          db.changesetcontentdifferences[cs]
    /\ db.changesethighlightrequests[cs].requested =>
          db.changesethighlightrequests[cs].evaluated

ExamineFailed(cs) == \E k \in ErrorKeys(cs) : k.kind = "examine"

Returnable(cs) ==
    \/ db.changesets[cs].for_merge = NULL
    \/ IsPrimaryMerge(db, cs)

\* The process stopped after processed of cs was committed and before
\* complete was: no group is tracked for cs.
StoppedBeforeComplete(cs) ==
    /\ cs \in DOMAIN db.changesets
    /\ Returnable(cs)
    /\ db.changesets[cs].processed
    /\ ~db.changesets[cs].complete
    /\ cs \notin DOMAIN groups

StructureEmittedFor(cs) ==
    \E j \in calculate_remaining(db, NewGroup, cs).emitted :
        j.kind = "structure" /\ j.cs = cs

\* Nothing is left to do: no group is tracked, and the group of a changeset
\* find_incomplete returns would neither write nor queue anything.
Quiescent ==
    /\ DOMAIN groups = {}
    /\ \A cs \in find_incomplete(db) :
          /\ calculate_remaining(db, NewGroup, cs).db = db
          /\ calculate_remaining(db, NewGroup, cs).grp.not_started = {}

FinalFiles ==
    IF IsMerge THEN git[Primary] \cap git[Reference] ELSE git[Primary]

\* Whether the content pipeline runs for c: always in the group of the
\* primary changeset, for the reference only when find_incomplete returns it
\* for its changesetcontentdifferences row.
ContentRuns(c) ==
    c = Primary \/ c \in DOMAIN db.changesetcontentdifferences

\* The database an uninterrupted run without failures ends in, given the
\* requests of the current database and the tree differences of git.
FinalDb ==
    [changesets |->
        [c \in DOMAIN db.changesets |->
            [db.changesets[c] EXCEPT !.processed = TRUE, !.complete = TRUE]],
     changesetcontentdifferences |->
        [c \in DOMAIN db.changesetcontentdifferences |-> TRUE],
     changesethighlightrequests |->
        [c \in DOMAIN db.changesets |->
            [requested |-> db.changesethighlightrequests[c].requested,
             evaluated |-> db.changesethighlightrequests[c].requested]],
     changesetfiles |->
        [c \in CS |-> IF c \in DOMAIN db.changesets THEN FinalFiles ELSE {}],
     changesetfiledifferences |->
        [c \in CS |->
            IF c \in DOMAIN db.changesets /\ ContentRuns(c)
            THEN [f \in FinalFiles |->
                    IF db.changesethighlightrequests[c].requested
                    THEN [comparison_pending |-> FALSE,
                          old_highlightfile |->
                              {Sha(f, db.changesets[c].from_commit)},
                          new_highlightfile |->
                              {Sha(f, db.changesets[c].to_commit)}]
                    ELSE [comparison_pending |-> FALSE,
                          old_highlightfile |-> {},
                          new_highlightfile |-> {}]]
            ELSE NoRows],
     changesetchangedlines |->
        [c \in CS |->
            IF c \in DOMAIN db.changesets
            THEN [f \in {x \in FinalFiles : IsText(x)} |-> ~ContentRuns(c)]
            ELSE NoRows],
     highlightfiles |->
        [h \in UNION {{Sha(f, db.changesets[c].from_commit),
                       Sha(f, db.changesets[c].to_commit)} :
                        f \in FinalFiles,
                        c \in {x \in DOMAIN db.changesets :
                                 db.changesethighlightrequests[x].requested}}
           |-> [language |-> HasLanguage(h[1]),
                highlighted |-> HasLanguage(h[1])]],
     changeseterrors |-> [c \in CS |-> {}]]

C10_Idempotent ==
    \A cs \in Callable :
        Keys(calculate_remaining(
                 calculate_remaining(db, GroupOf(cs), cs).db,
                 calculate_remaining(db, GroupOf(cs), cs).grp, cs).emitted)
          = Keys(calculate_remaining(db, GroupOf(cs), cs).emitted)

\* C10 witness: a call that writes the evaluated flag and emits
\* SyntaxHighlightFile jobs, so that the second call starts from a different
\* database and group.
C10_Witness ==
    \E cs \in Callable :
        /\ ~db.changesethighlightrequests[cs].evaluated
        /\ calculate_remaining(db, GroupOf(cs), cs)
               .db.changesethighlightrequests[cs].evaluated
        /\ \E j \in calculate_remaining(db, GroupOf(cs), cs).emitted :
              j.kind = "highlight"

\* The three cases of a changeset with work left.
StructureIncomplete(c) ==
    /\ ~db.changesets[c].complete
    /\ db.changesets[c].for_merge \in {NULL, db.changesets[c].to_commit}

ContentIncomplete(c) ==
    /\ db.changesets[c].complete
    /\ c \in DOMAIN db.changesetcontentdifferences
    /\ ~db.changesetcontentdifferences[c]

HighlightIncomplete(c) ==
    /\ db.changesets[c].complete
    /\ db.changesethighlightrequests[c].requested
    /\ \/ ~db.changesethighlightrequests[c].evaluated
       \/ \E f \in DOMAIN db.changesetfiledifferences[c] :
          \E h \in db.changesetfiledifferences[c][f].old_highlightfile
                   \cup db.changesetfiledifferences[c][f].new_highlightfile :
              ~db.highlightfiles[h].highlighted

\* C11: find_incomplete returns a group for exactly the changesets whose
\* structure, content difference or highlighting is incomplete, and never
\* for an incomplete reference changeset of a merge.
C11_FindIncomplete ==
    /\ find_incomplete(db) =
          {c \in DOMAIN db.changesets :
              StructureIncomplete(c) \/ ContentIncomplete(c)
                  \/ HighlightIncomplete(c)}
    /\ \A c \in DOMAIN db.changesets :
          (/\ ~db.changesets[c].complete
           /\ db.changesets[c].for_merge # NULL
           /\ db.changesets[c].for_merge # db.changesets[c].to_commit) =>
              c \notin find_incomplete(db)

\* C11 witness: the primary changeset of a merge is returned while its
\* processed reference changeset is incomplete, and is not.
C11_Witness ==
    /\ IsMerge
    /\ db.changesets[Reference].processed
    /\ ~db.changesets[Reference].complete
    /\ Primary \in find_incomplete(db)
    /\ Reference \notin find_incomplete(db)

\* Highlighting of c is requested and complete: evaluated, and no
\* highlightfile with a language is left to highlight.
HighlightComplete(d, c) ==
    /\ d.changesethighlightrequests[c].requested
    /\ syntax_highlight_complete_before(d, c)

\* A completion flag of c goes from false to true between d and e.
FlagTransition(d, e, c) ==
    \/ ~d.changesets[c].complete /\ e.changesets[c].complete
    \/ /\ c \in DOMAIN d.changesetcontentdifferences
       /\ ~d.changesetcontentdifferences[c]
       /\ e.changesetcontentdifferences[c]
    \/ ~HighlightComplete(d, c) /\ HighlightComplete(e, c)

Occurs(n, sent) == \E k \in 1..Len(sent) : sent[k] = n

\* What the notifications of one handler look like: monitor_changeset only
\* first, forget_changeset only last, and forget_changeset only when the
\* group is gone and a further calculate_remaining queues nothing.
NotificationsOrdered ==
    /\ \A k \in 1..Len(notified.sent) :
          /\ notified.sent[k] = "monitor" => k = 1
          /\ notified.sent[k] = "forget" => k = Len(notified.sent)
    /\ Occurs("forget", notified.sent) =>
          /\ notified.cs \notin DOMAIN groups
          /\ calculate_remaining(db, NewGroup, notified.cs).grp.not_started
               = {}

\* The notifications of a step of the running process, for changeset c.
NotificationsFollow(c) ==
    /\ (notified'.cs = c /\ notified'.sent # <<>>) =>
          (c \notin DOMAIN groups <=> notified'.sent[1] = "monitor")
    /\ (c \in DOMAIN groups /\ c \in DOMAIN groups'
            /\ ~(groups[c].running \subseteq groups'[c].running)) =>
          (notified'.cs = c /\ Occurs("update", notified'.sent))
    /\ (c \in DOMAIN groups /\ c \notin DOMAIN groups') =>
          (notified'.cs = c /\ Occurs("update", notified'.sent)
              /\ Occurs("forget", notified'.sent))
    /\ (c \in DOMAIN db.changesets /\ notified'.cs = c
            /\ FlagTransition(db, db', c)) =>
          Occurs("update", notified'.sent)

\* C12: the notifications of a changeset group are ordered: monitor_changeset
\* once at the start of the group and before any update_changeset;
\* update_changeset after every batch of finished jobs and whenever a
\* completion flag of the group's changeset goes to true; forget_changeset
\* last, only when nothing is queued or in flight and a further
\* calculate_remaining queues nothing.
C12_NotificationOrder ==
    /\ []NotificationsOrdered
    /\ [][crashes' = crashes => \A c \in CS : NotificationsFollow(c)]_vars

\* C12 witness: a group started, published updates and has just finished
\* after a job of its changeset with highlighting requested.
C12_Witness ==
    /\ notified.cs = Primary
    /\ notified.sent = <<"update", "update", "update", "forget">>
    /\ db.changesethighlightrequests[Primary].requested
    /\ db.changesethighlightrequests[Primary].evaluated

\* C13: calculate_remaining never propagates an exception to the runner,
\* whatever the database holds, a changeset without changesethighlightrequests
\* row or a merge without its reference changeset included: no call has
\* raised.
C13_Original == ~raised

\* The keys of the failures of cs recorded as fatal.
FatalKeys(cs) == {e.job_key : e \in {x \in db.changeseterrors[cs] : x.fatal}}

\* C14: a job that failed with a transient (non-fatal) error is not marked
\* failed: after the next calculate_remaining its key is not in the group's
\* failed set, so that the job can be emitted again; only the keys of fatal
\* failures are.
C14_Original ==
    \A cs \in Callable :
        calculate_remaining(db, GroupOf(cs), cs).grp.failed
            \subseteq FatalKeys(cs)

\* ------------------------------------------------------------------ C15
\* The file has a changesetfiledifferences row that references a
\* highlightfiles row on both sides.
HasHighlightFiles(cs, f) ==
    /\ f \in DOMAIN db.changesetfiledifferences[cs]
    /\ db.changesetfiledifferences[cs][f].old_highlightfile # {}
    /\ db.changesetfiledifferences[cs][f].new_highlightfile # {}

\* A DetectFileLanguages job that covered the file has failed.
DetectFailed(cs, f) ==
    \E k \in ErrorKeys(cs) : k.kind = "detect" /\ f \in k.files

\* C15 (as claimed): whenever changesethighlightrequests.evaluated is true
\* for a changeset, every file version of the changeset has a highlightfiles
\* row referenced from its changesetfiledifferences row, in every reachable
\* state.
C15_Original ==
    \A cs \in DOMAIN db.changesets :
        db.changesethighlightrequests[cs].evaluated =>
            \A f \in db.changesetfiles[cs] : HasHighlightFiles(cs, f)

\* C15 (amended): whenever evaluated is true, language detection has been
\* attempted for every file of the changeset: the file has a
\* changesetfiledifferences row, and either that row references a
\* highlightfiles row on both sides or a DetectFileLanguages job covering
\* the file has a recorded failure.
C15_EvaluatedImpliesDetected ==
    \A cs \in DOMAIN db.changesets :
        db.changesethighlightrequests[cs].evaluated =>
            \A f \in db.changesetfiles[cs] :
                /\ f \in DOMAIN db.changesetfiledifferences[cs]
                /\ HasHighlightFiles(cs, f) \/ DetectFailed(cs, f)

\* C15 witness: highlighting of a changeset with files has been evaluated
\* and every file references its highlightfiles rows.
C15_Witness ==
    \E cs \in DOMAIN db.changesets :
        /\ db.changesethighlightrequests[cs].evaluated
        /\ db.changesetfiles[cs] # {}
        /\ \A f \in db.changesetfiles[cs] : HasHighlightFiles(cs, f)

\* ------------------------------------------------------------------ C16
\* C16: no step of the engine changes a changeset's complete flag from true
\* to false: once complete=true is committed it stays true through every
\* later calculate_remaining call (of its own group or of the primary merge
\* group that references it), job completion, job failure and restart.
C16_CompleteStable ==
    [][\A c \in DOMAIN db.changesets :
          db.changesets[c].complete =>
              /\ c \in DOMAIN db'.changesets
              /\ db'.changesets[c].complete]_vars

\* C16 witness: a changeset is complete after a restart, a recorded job
\* failure and a later calculate_remaining that evaluated its highlighting.
C16_Witness ==
    \E c \in DOMAIN db.changesets :
        /\ db.changesets[c].complete
        /\ crashes > 0
        /\ db.changeseterrors[c] # {}
        /\ db.changesethighlightrequests[c].evaluated

\* ============================================================ analyzechunk
\* criticctl/commands/run_worker/analyzechunk.py.  A line is a sequence of
\* characters (one-character strings), a word a sequence of characters, and a
\* string returned by the analysis the sequence of its ";"-separated records.
\* Indexes into lines and words are zero-based, as in the source.

\* Character classes of the patterns: the lines analysed here hold letters,
\* digits, spaces, tabs, newlines, braces, "*", "/", "=", ";" and the conflict
\* marker characters.
Lower == {"a", "b", "c", "d", "e", "f", "i", "l", "n", "o", "r", "s", "t", "x"}

Upper == {"A", "B", "F"}

Digit == {"0", "1", "2", "3"}

\* \s
IsSpace(c) == c \in {" ", "\t", "\n"}

\* The alternative of re_words that matches at a character: a run of digits,
\* a word that starts with upper case, a run of lower-case letters, a run of
\* white space, or the single character (a bracket or any other character).
CharClass(c) ==
    IF c \in Digit THEN "digit"
    ELSE IF c \in Upper THEN "upper"
    ELSE IF c \in Lower THEN "lower"
    ELSE IF IsSpace(c) THEN "space" ELSE "single"

\* The length of the longest prefix of TRUE in a sequence of booleans.
PrefixLength(flags) ==
    CHOOSE n \in 0..Len(flags) :
        /\ \A k \in 1..n : flags[k]
        /\ n < Len(flags) => ~flags[n + 1]

\* str.strip()
strip(s) ==
    LET lead == PrefixLength([k \in 1..Len(s) |-> IsSpace(s[k])])
        rest == SubSeq(s, lead + 1, Len(s))
        last == IF rest = <<>> THEN 0
                ELSE CHOOSE n \in 1..Len(rest) :
                        /\ ~IsSpace(rest[n])
                        /\ \A k \in (n + 1)..Len(rest) : IsSpace(rest[k])
    IN  SubSeq(rest, 1, last)

\* re_ws.sub("", s)
NoWS(s) == SelectSeq(s, LAMBDA c : ~IsSpace(c))

\* re_ws.sub(" ", s): every run of white space becomes one space.
RECURSIVE OneWS(_)
OneWS(s) ==
    IF s = <<>> THEN <<>>
    ELSE IF IsSpace(s[1])
         THEN <<" ">>
                  \o OneWS(SubSeq(s,
                          PrefixLength([k \in 1..Len(s) |-> IsSpace(s[k])])
                              + 1,
                          Len(s)))
         ELSE <<s[1]>> \o OneWS(Tail(s))

\* re_ignore.match(line): white space around nothing, one brace or "*",
\* "else", "do" or "*/".
re_ignore(line) ==
    strip(line) \in {<<>>, <<"{">>, <<"}">>, <<"*">>, <<"e", "l", "s", "e">>,
                     <<"d", "o">>, <<"*", "/">>}

\* The line starts with seven times the character c.
SevenOf(line, c) == Len(line) >= 7 /\ \A k \in 1..7 : line[k] = c

\* re_conflict.match(line): "<<<<<<< ...", "=======" or ">>>>>>> ...".
re_conflict(line) ==
    \/ SevenOf(line, "<") /\ Len(line) >= 8 /\ line[8] = " "
    \/ SevenOf(line, "=") /\ Len(line) = 7
    \/ SevenOf(line, ">") /\ Len(line) >= 8 /\ line[8] = " "

\* re_words.findall(line)
RECURSIVE re_words(_)
re_words(line) ==
    IF line = <<>> THEN <<>>
    ELSE LET class == CharClass(line[1])
             \* [A-Z][a-z]+ before [A-Z]+
             capitalised == /\ class = "upper"
                            /\ Len(line) >= 2
                            /\ CharClass(line[2]) = "lower"
             n == IF class = "single" THEN 1
                  ELSE IF capitalised
                  THEN 1 + PrefixLength([k \in 1..(Len(line) - 1) |->
                                            CharClass(line[k + 1]) = "lower"])
                  ELSE PrefixLength([k \in 1..Len(line) |->
                                        CharClass(line[k]) = class])
         IN  <<SubSeq(line, 1, n)>> \o re_words(SubSeq(line, n + 1, Len(line)))

\* re_ws_words.findall(line): a space or a tab by itself, a run of white
\* space that starts with another character, or a run of other characters.
RECURSIVE re_ws_words(_)
re_ws_words(line) ==
    IF line = <<>> THEN <<>>
    ELSE LET n == IF line[1] \in {" ", "\t"} THEN 1
                  ELSE PrefixLength([k \in 1..Len(line) |->
                                        IsSpace(line[k]) = IsSpace(line[1])])
         IN  <<SubSeq(line, 1, n)>>
                 \o re_ws_words(SubSeq(line, n + 1, Len(line)))

\* ---- difflib.SequenceMatcher(None, a, b), without junk (autojunk needs 200
\* elements).
\* find_longest_match: the longest block a[i:i+k] = b[j:j+k] inside the
\* window, the one that starts first in a and then first in b.
find_longest_match(a, b, alo, ahi, blo, bhi) ==
    LET Matches(i, j, k) == \A x \in 1..k : a[i + x] = b[j + x]
        \* the length of the longest block that starts at (i, j)
        Longest(i, j) ==
            CHOOSE k \in 0..(ahi - alo) :
                /\ i + k <= ahi
                /\ j + k <= bhi
                /\ Matches(i, j, k)
                /\ \/ i + k = ahi
                   \/ j + k = bhi
                   \/ a[i + k + 1] # b[j + k + 1]
        starts == (alo..ahi) \X (blo..bhi)
        size == CHOOSE k \in {Longest(p[1], p[2]) : p \in starts} :
                    \A p \in starts : Longest(p[1], p[2]) <= k
        first == {p \in starts : Longest(p[1], p[2]) = size}
        i == CHOOSE x \in {p[1] : p \in first} :
                 \A p \in first : x <= p[1]
        j == CHOOSE y \in {p[2] : p \in {q \in first : q[1] = i}} :
                 \A p \in first : p[1] = i => y <= p[2]
    IN  <<i, j, size>>

\* The matching blocks of the window, in order.
RECURSIVE matching_blocks(_, _, _, _, _, _)
matching_blocks(a, b, alo, ahi, blo, bhi) ==
    LET m == find_longest_match(a, b, alo, ahi, blo, bhi)
        i == m[1]
        j == m[2]
        k == m[3]
    IN  IF k = 0 THEN <<>>
        ELSE (IF alo < i /\ blo < j
              THEN matching_blocks(a, b, alo, i, blo, j) ELSE <<>>)
             \o <<m>>
             \o (IF i + k < ahi /\ j + k < bhi
                 THEN matching_blocks(a, b, i + k, ahi, j + k, bhi) ELSE <<>>)

\* get_matching_blocks(): the blocks and the sentinel (len(a), len(b), 0).
\* Without junk a longest block cannot be extended, so no two blocks are
\* adjacent and the merge of adjacent blocks changes nothing.
get_matching_blocks(a, b) ==
    matching_blocks(a, b, 0, Len(a), 0, Len(b)) \o <<<<Len(a), Len(b), 0>>>>

\* get_opcodes(), without the "equal" opcodes, which no caller uses.
RECURSIVE opcodes(_, _, _)
opcodes(blocks, i, j) ==
    IF blocks = <<>> THEN <<>>
    ELSE LET ai == blocks[1][1]
             bj == blocks[1][2]
             tag == IF i < ai /\ j < bj THEN "replace"
                    ELSE IF i < ai THEN "delete"
                    ELSE IF j < bj THEN "insert" ELSE "equal"
         IN  (IF tag = "equal" THEN <<>> ELSE <<<<tag, i, ai, j, bj>>>>)
             \o opcodes(Tail(blocks), ai + blocks[1][3], bj + blocks[1][3])

get_opcodes(a, b) == opcodes(get_matching_blocks(a, b), 0, 0)

\* Mutant: the offset is the number of words before the boundary.
offsetInLine_words(words, offset) == offset

\* sum(len(word) for word in words[0:offset])
RECURSIVE offsetInLine(_, _)
offsetInLine(words, offset) ==
    IF offset = 0 THEN 0
    ELSE offsetInLine(words, offset - 1) + Len(words[offset])

\* The items of a line difference from the opcodes of the two word lists.
RECURSIVE Items(_, _, _)
Items(ops, deletedWords, insertedWords) ==
    IF ops = <<>> THEN <<>>
    ELSE LET op == Head(ops)
             item ==
                 IF op[1] = "replace"
                 THEN [tag |-> "r",
                       range |-> <<offsetInLine(deletedWords, op[2]),
                                   offsetInLine(deletedWords, op[3]),
                                   offsetInLine(insertedWords, op[4]),
                                   offsetInLine(insertedWords, op[5])>>]
                 ELSE IF op[1] = "delete"
                 THEN [tag |-> "d",
                       range |-> <<offsetInLine(deletedWords, op[2]),
                                   offsetInLine(deletedWords, op[3])>>]
                 ELSE [tag |-> "i",
                       range |-> <<offsetInLine(insertedWords, op[4]),
                                   offsetInLine(insertedWords, op[5])>>]
         IN  <<item>> \o Items(Tail(ops), deletedWords, insertedWords)

lineDiffItems(deletedWords, insertedWords) ==
    Items(get_opcodes(deletedWords, insertedWords),
          deletedWords, insertedWords)

\* Mutant: the white-space difference is taken over the words of re_words.
analyzeWhiteSpaceLine_words(deletedLine, insertedLine) == lineDiffItems(re_words(deletedLine), re_words(insertedLine))

analyzeWhiteSpaceLine(deletedLine, insertedLine) ==
    lineDiffItems(re_ws_words(deletedLine), re_ws_words(insertedLine))

\* ---- analyzeChunk1
\* sum(map(len, map(str.strip, a[i : i + n]))) over the matching blocks.
RECURSIVE StrippedLength(_, _, _)
StrippedLength(a, i, n) ==
    IF n = 0 THEN 0
    ELSE StrippedLength(a, i, n - 1) + Len(strip(a[i + n]))

RECURSIVE matching(_, _)
matching(blocks, a) ==
    IF blocks = <<>> THEN 0
    ELSE StrippedLength(a, blocks[1][1], blocks[1][3])
             + matching(Tail(blocks), a)

\* ratio(): the score as the fraction <<numerator, denominator>>.
ratio(blocks, a, aLength, bLength) ==
    IF aLength > 5 /\ Len(blocks) = 2
    THEN <<matching(blocks, a), aLength>>
    ELSE <<2 * matching(blocks, a), aLength + bLength>>

\* Mutant: a score of exactly 0.5 is accepted.
AboveHalf_or_equal(r) == 2 * r[1] >= r[2]

\* r > 0.5, and the order of two scores.
AboveHalf(r) == 2 * r[1] > r[2]

Greater(r, q) == r[1] * q[2] > q[1] * r[2]

\* The score of a deleted and an inserted line.
Score(deleted, inserted) ==
    ratio(get_matching_blocks(re_words(deleted), re_words(inserted)),
          re_words(deleted),
          Len(NoWS(strip(deleted))), Len(NoWS(strip(inserted))))

\* The lines the chunks are made of: two lines of words, two spellings of a
\* brace, the empty line and a conflict marker.
Lines ==
    {<<"a", "a", "a", "a", " ", "b", "b">>,
     <<"a", "a", "a", "a", " ", "c">>,
     <<"{">>,
     <<" ", "{">>,
     <<>>,
     <<"=", "=", "=", "=", "=", "=", "=">>}

\* The scores and the line differences of the lines, which the worker keeps
\* in chunk.lines once they are computed.
Scores == chunk.lines.scores

LineDiffs == chunk.lines.diffs

\* The index pairs in the order of the two nested loops.
ScanOrder(deletedLines, insertedLines) ==
    [k \in 1..(Len(deletedLines) * Len(insertedLines)) |->
        <<(k - 1) \div Len(insertedLines), (k - 1) % Len(insertedLines)>>]

\* The pair is appended to matches.
IsCandidate(deleted, inserted) ==
    /\ ~re_conflict(deleted)
    /\ ~re_ignore(deleted)
    /\ ~re_ignore(inserted)
    /\ AboveHalf(Score(deleted, inserted))

\* The pair is appended to equals.
IsEqual(deleted, inserted) ==
    /\ ~re_conflict(deleted)
    /\ strip(deleted) = strip(inserted)
    /\ re_ignore(deleted) \/ re_ignore(inserted)

\* The pairs of lines that are candidates and that are equal, kept likewise.
Candidates == chunk.lines.candidates

Equals == chunk.lines.equals

\* matches, after the scan.
ScanMatches(deletedLines, insertedLines) ==
    LET pairs == SelectSeq(ScanOrder(deletedLines, insertedLines),
                           LAMBDA p : Candidates[<<deletedLines[p[1] + 1],
                                                   insertedLines[p[2] + 1]>>])
    IN  [n \in 1..Len(pairs) |->
            [r |-> Scores[<<deletedLines[pairs[n][1] + 1],
                            insertedLines[pairs[n][2] + 1]>>],
             deletedIndex |-> pairs[n][1],
             insertedIndex |-> pairs[n][2]]]

\* equals, after the scan.
ScanEquals(deletedLines, insertedLines) ==
    SelectSeq(ScanOrder(deletedLines, insertedLines),
              LAMBDA p : Equals[<<deletedLines[p[1] + 1],
                                  insertedLines[p[2] + 1]>>])

\* matches.sort(key=lambda x: x[0], reverse=True): stable, so that matches
\* of equal score keep the order of the scan.
RECURSIVE SortByScore(_)
SortByScore(matches) ==
    IF matches = <<>> THEN <<>>
    ELSE LET rest == SortByScore(Tail(matches))
             n == PrefixLength([k \in 1..Len(rest) |->
                                   Greater(rest[k].r, Head(matches).r)])
         IN  SubSeq(rest, 1, n) \o <<Head(matches)>>
                 \o SubSeq(rest, n + 1, Len(rest))

\* Mutant: a match is kept unless it shares an index with the accepted one.
Compatible_uncrossed(m, deletedIndex, insertedIndex) ==
    /\ m.deletedIndex # deletedIndex
    /\ m.insertedIndex # insertedIndex

\* Mutant: a match is kept unless it crosses the accepted one.
Compatible_crossing_only(m, deletedIndex, insertedIndex) ==
    (m.deletedIndex < deletedIndex) = (m.insertedIndex < insertedIndex)

\* The filter applied to matches when a match is accepted.
Compatible(m, deletedIndex, insertedIndex) ==
    /\ m.deletedIndex # deletedIndex
    /\ m.insertedIndex # insertedIndex
    /\ (m.deletedIndex < deletedIndex) = (m.insertedIndex < insertedIndex)

\* The while loop that pops the first match, accepts it and filters matches
\* and equals.
RECURSIVE Accept(_, _, _)
Accept(matches, equals, final) ==
    IF matches = <<>> THEN [final |-> final, equals |-> equals]
    ELSE LET m == Head(matches)
         IN  Accept(SelectSeq(Tail(matches),
                        LAMBDA x : Compatible(x, m.deletedIndex,
                                              m.insertedIndex)),
                    SelectSeq(equals,
                        LAMBDA e : (e[1] < m.deletedIndex)
                                     = (e[2] < m.insertedIndex)),
                    Append(final, m))

\* final.sort(): by deletedIndex, which no two accepted matches share.
RECURSIVE SortByIndex(_)
SortByIndex(final) ==
    IF final = <<>> THEN <<>>
    ELSE LET rest == SortByIndex(Tail(final))
             n == PrefixLength([k \in 1..Len(rest) |->
                      \/ rest[k].deletedIndex < Head(final).deletedIndex
                      \/ /\ rest[k].deletedIndex = Head(final).deletedIndex
                         /\ rest[k].insertedIndex
                                < Head(final).insertedIndex])
         IN  SubSeq(rest, 1, n) \o <<Head(final)>>
                 \o SubSeq(rest, n + 1, Len(rest))

\* A record "<d>=<i>" of the output with its items.  kind tells the records
\* of accepted matches ("words") from those of equals ("equal"); the string
\* of the source does not hold it.
Record(kind, d, i, items) == [kind |-> kind, d |-> d, i |-> i, items |-> items]

ws == [tag |-> "ws", range |-> <<>>]

\* The record of an entry of equals.
EqualRecord(deletedLines, insertedLines, di, ii, offsetA, offsetB) ==
    LET lineDiff == LineDiffs[<<deletedLines[di + 1],
                                insertedLines[ii + 1]>>].white
    IN  Record("equal", di + offsetA, ii + offsetB,
               IF lineDiff # <<>> THEN <<ws>> \o lineDiff ELSE <<>>)

\* The record of an accepted match.
MatchRecord(deletedLines, insertedLines, deletedIndex, insertedIndex, offsetA, offsetB) ==
    LET deletedLine == deletedLines[deletedIndex + 1]
        insertedLine == insertedLines[insertedIndex + 1]
    IN  Record("words", deletedIndex + offsetA, insertedIndex + offsetB,
               IF /\ deletedLine # insertedLine
                  /\ strip(deletedLine) = strip(insertedLine)
               THEN <<ws>> \o LineDiffs[<<deletedLine, insertedLine>>].white
               ELSE LineDiffs[<<deletedLine, insertedLine>>].words)

\* Mutant: an entry of equals is emitted when it lies after the previous
\* record in one of the two indexes.
Between_either(previousDeletedIndex, previousInsertedIndex, di, ii, deletedIndex, insertedIndex) ==
    /\ previousDeletedIndex < di \/ previousInsertedIndex < ii
    /\ di < deletedIndex
    /\ ii < insertedIndex

\* previousDeletedIndex < di < deletedIndex
\*     and previousInsertedIndex < ii < insertedIndex
Between(previousDeletedIndex, previousInsertedIndex, di, ii, deletedIndex, insertedIndex) ==
    /\ previousDeletedIndex < di
    /\ di < deletedIndex
    /\ previousInsertedIndex < ii
    /\ ii < insertedIndex

\* The while loop over equals before the entry (deletedIndex, insertedIndex)
\* of final: s holds equals, the previous indexes and result.
RECURSIVE EmitEquals(_, _, _, _, _, _, _)
EmitEquals(s, deletedLines, insertedLines, deletedIndex, insertedIndex, offsetA, offsetB) ==
    IF /\ s.equals # <<>>
       /\ \/ s.equals[1][1] < deletedIndex
          \/ s.equals[1][2] < insertedIndex
    THEN LET di == s.equals[1][1]
             ii == s.equals[1][2]
             emitted == Between(s.previousDeletedIndex,
                                s.previousInsertedIndex, di, ii,
                                deletedIndex, insertedIndex)
             popped == Tail(s.equals)
             same == PrefixLength([k \in 1..Len(popped) |->
                                      \/ di = popped[k][1]
                                      \/ ii = popped[k][2]])
         IN  EmitEquals(
                 [equals |-> SubSeq(popped, same + 1, Len(popped)),
                  previousDeletedIndex |->
                      IF emitted THEN di ELSE s.previousDeletedIndex,
                  previousInsertedIndex |->
                      IF emitted THEN ii ELSE s.previousInsertedIndex,
                  result |->
                      IF emitted
                      THEN Append(s.result,
                                  EqualRecord(deletedLines, insertedLines,
                                              di, ii, offsetA, offsetB))
                      ELSE s.result],
                 deletedLines, insertedLines, deletedIndex, insertedIndex,
                 offsetA, offsetB)
    ELSE s

\* The for loop over final, whose last entry is the sentinel
\* (len(deletedLines), len(insertedLines)).
RECURSIVE Emit(_, _, _, _, _, _)
Emit(final, s, deletedLines, insertedLines, offsetA, offsetB) ==
    IF final = <<>>
    THEN EmitEquals(s, deletedLines, insertedLines,
                    Len(deletedLines), Len(insertedLines),
                    offsetA, offsetB).result
    ELSE LET m == Head(final)
             t == EmitEquals(s, deletedLines, insertedLines,
                             m.deletedIndex, m.insertedIndex,
                             offsetA, offsetB)
         IN  Emit(Tail(final),
                  [equals |-> t.equals,
                   previousDeletedIndex |-> m.deletedIndex,
                   previousInsertedIndex |-> m.insertedIndex,
                   result |-> Append(t.result,
                                  MatchRecord(deletedLines, insertedLines,
                                              m.deletedIndex, m.insertedIndex,
                                              offsetA, offsetB))],
                  deletedLines, insertedLines, offsetA, offsetB)

\* Mutant: only the last lines are compared.
TrailingEqual_last(deletedLines, insertedLines) == IF deletedLines[Len(deletedLines)] = insertedLines[Len(insertedLines)] THEN 1 ELSE 0

\* The number of equal lines at the end of the two chunks: the while loop of
\* the branch without matches.
TrailingEqual(deletedLines, insertedLines) ==
    CHOOSE n \in 0..Len(deletedLines) :
        /\ n <= Len(insertedLines)
        /\ \A k \in 0..(n - 1) :
               deletedLines[Len(deletedLines) - k]
                   = insertedLines[Len(insertedLines) - k]
        /\ \/ n = Len(deletedLines)
           \/ n = Len(insertedLines)
           \/ deletedLines[Len(deletedLines) - n]
                  # insertedLines[Len(insertedLines) - n]

\* The matches analyzeChunk1 accepts, and the entries of equals left.  equals
\* is in the order of the scan, which is the order equals.sort() gives.
Accepted(deletedLines, insertedLines) ==
    Accept(SortByScore(ScanMatches(deletedLines, insertedLines)),
           ScanEquals(deletedLines, insertedLines), <<>>)

\* The chunk is too large to analyse.
LargeChunk == 10000

analyzeChunk1(deletedLines, insertedLines, offsetA, offsetB) ==
    LET matches == ScanMatches(deletedLines, insertedLines)
        a == Accept(SortByScore(matches),
                    ScanEquals(deletedLines, insertedLines), <<>>)
        n == TrailingEqual(deletedLines, insertedLines)
    IN  IF Len(deletedLines) * Len(insertedLines) > LargeChunk THEN <<>>
        ELSE IF matches # <<>>
        THEN Emit(SortByIndex(a.final),
                  [equals |-> a.equals,
                   previousDeletedIndex |-> -1,
                   previousInsertedIndex |-> -1,
                   result |-> <<>>],
                  deletedLines, insertedLines, offsetA, offsetB)
        ELSE [k \in 1..n |->
                 Record("equal",
                        Len(deletedLines) - n + k - 1 + offsetA,
                        Len(insertedLines) - n + k - 1 + offsetB, <<>>)]

\* ---- analyzeWhiteSpaceChanges
\* One record for every pair of zip(deletedLines, insertedLines) that has
\* one, in order.
RECURSIVE WhiteSpaceRecords(_, _, _, _, _, _, _)
WhiteSpaceRecords(deletedLines, insertedLines, at_eof, offsetA, offsetB, full, index) ==
    IF index >= Len(deletedLines) \/ index >= Len(insertedLines) THEN <<>>
    ELSE (IF deletedLines[index + 1] # insertedLines[index + 1]
          THEN <<Record("white", index + offsetA, index + offsetB,
                        LineDiffs[<<deletedLines[index + 1],
                                    insertedLines[index + 1]>>].white)>>
          ELSE IF index = Len(deletedLines) - 1 /\ at_eof
          THEN <<Record("white", index + offsetA, index + offsetB,
                        <<[tag |-> "eol", range |-> <<>>]>>)>>
          ELSE IF full
          THEN <<Record("white", index + offsetA, index + offsetB, <<>>)>>
          ELSE <<>>)
         \o WhiteSpaceRecords(deletedLines, insertedLines, at_eof,
                              offsetA, offsetB, full, index + 1)

\* Mutant: no record is added for a window without records.
analyzeWhiteSpaceChanges_pairs_only(deletedLines, insertedLines, at_eof, offsetA, offsetB, full) ==
    WhiteSpaceRecords(deletedLines, insertedLines, at_eof, offsetA, offsetB,
                      full, 0)

analyzeWhiteSpaceChanges(deletedLines, insertedLines, at_eof, offsetA, offsetB, full) ==
    LET result == WhiteSpaceRecords(deletedLines, insertedLines, at_eof,
                                    offsetA, offsetB, full, 0)
    IN  IF result = <<>> /\ (offsetA # 0 \/ offsetB # 0)
        THEN <<Record("white", offsetA, offsetB, <<>>)>>
        ELSE result

\* ---- analyzeChunk
\* s[lo:hi]
Slice(s, lo, hi) == SubSeq(s, lo + 1, hi)

\* The loop over the matching blocks of the lines and the window after the
\* last block: the edits, joined.
RECURSIVE Edits(_, _, _, _, _, _)
Edits(blocks, deletedLines, insertedLines, moved, pi, pj) ==
    IF blocks = <<>>
    THEN IF pi < Len(deletedLines) /\ pj < Len(insertedLines)
         THEN analyzeChunk1(Slice(deletedLines, pi, Len(deletedLines)),
                            Slice(insertedLines, pj, Len(insertedLines)),
                            pi, pj)
         ELSE <<>>
    ELSE LET i == blocks[1][1]
             j == blocks[1][2]
             n == blocks[1][3]
         IN  IF n = 0
             THEN Edits(Tail(blocks), deletedLines, insertedLines, moved,
                        pi, pj)
             ELSE (IF i > pi /\ j > pj
                   THEN analyzeChunk1(Slice(deletedLines, pi, i),
                                      Slice(insertedLines, pj, j), pi, pj)
                   ELSE <<>>)
                  \o analyzeWhiteSpaceChanges(
                         Slice(deletedLines, i, i + n),
                         Slice(insertedLines, j, j + n), FALSE, i, j, moved)
                  \o Edits(Tail(blocks), deletedLines, insertedLines, moved,
                           i + n, j + n)

\* [re_ws.sub(" ", line.strip()) for line in lines]
NoWSLines == chunk.lines.nows

LinesNoWS(lines) == [n \in 1..Len(lines) |-> NoWSLines[lines[n]]]

\* Mutant: an empty analysis is returned as None.
analyzeChunk_or_none(deletedLines, insertedLines, moved) ==
    IF deletedLines = <<>> \/ insertedLines = <<>> THEN {}
    ELSE LET analysis ==
                 IF Len(deletedLines) * Len(insertedLines) <= LargeChunk
                        /\ ~moved
                 THEN analyzeChunk1(deletedLines, insertedLines, 0, 0)
                 ELSE Edits(get_matching_blocks(LinesNoWS(deletedLines),
                                                LinesNoWS(insertedLines)),
                            deletedLines, insertedLines, moved, 0, 0)
         IN  IF analysis # <<>> THEN {analysis} ELSE {}

\* Mutant: a chunk of exactly LargeChunk pairs of lines is not analysed as
\* a whole.
analyzeChunk_below_limit(deletedLines, insertedLines, moved) ==
    IF deletedLines = <<>> \/ insertedLines = <<>> THEN {}
    ELSE LET analysis ==
                 IF Len(deletedLines) * Len(insertedLines) < LargeChunk
                        /\ ~moved
                 THEN analyzeChunk1(deletedLines, insertedLines, 0, 0)
                 ELSE Edits(get_matching_blocks(LinesNoWS(deletedLines),
                                                LinesNoWS(insertedLines)),
                            deletedLines, insertedLines, moved, 0, 0)
         IN  IF analysis # <<>> THEN {analysis} ELSE {<<>>}

\* The value returned: {} for None, {analysis} for a string.
analyzeChunk(deletedLines, insertedLines, moved) ==
    IF deletedLines = <<>> \/ insertedLines = <<>> THEN {}
    ELSE LET analysis ==
                 IF Len(deletedLines) * Len(insertedLines) <= LargeChunk
                        /\ ~moved
                 THEN analyzeChunk1(deletedLines, insertedLines, 0, 0)
                 ELSE Edits(get_matching_blocks(LinesNoWS(deletedLines),
                                                LinesNoWS(insertedLines)),
                            deletedLines, insertedLines, moved, 0, 0)
         IN  IF analysis # <<>> THEN {analysis} ELSE {<<>>}

\* ---- the analysis of one chunk
\* The chunks: up to MaxLines lines on a side.
MaxLines == 3

Chunks == UNION {[1..n -> Lines] : n \in 0..MaxLines}

\* What the analysis computes from one line or from a deleted and an inserted
\* line, for every line and pair of the lines.
TablesOf(lines) ==
    [scores |-> [p \in lines \X lines |-> Score(p[1], p[2])],
     candidates |-> [p \in lines \X lines |-> IsCandidate(p[1], p[2])],
     equals |-> [p \in lines \X lines |-> IsEqual(p[1], p[2])],
     diffs |->
        [p \in lines \X lines |->
            [words |-> lineDiffItems(re_words(p[1]), re_words(p[2])),
             white |-> analyzeWhiteSpaceLine(p[1], p[2])]],
     nows |-> [line \in lines |-> OneWS(strip(line))]]

LineTables == TablesOf(Lines)

\* A worker is handed a chunk; the difference engine is idle.
ChunkInit ==
    /\ db = InitDb(InitChangesets(FALSE), {}, {}, {Primary})
    /\ git = [c \in CS |-> {}]
    /\ groups = NoRows
    /\ published = [c \in CS |-> "none"]
    /\ notified = NoNotifications
    /\ raised = FALSE
    /\ crashes = 0
    /\ failures = 0
    /\ \E lines \in {LineTables} :
       \E deletedLines \in Chunks : \E insertedLines \in Chunks :
          chunk = [NoChunk EXCEPT !.deletedLines = deletedLines,
                                  !.insertedLines = insertedLines,
                                  !.lines = lines]

\* analyzeChunk1(deletedLines, insertedLines), called as analyzeChunk calls
\* it, on two chunks with lines.
AnalyzeChunk1 ==
    /\ chunk.called = "none"
    /\ chunk.deletedLines # <<>>
    /\ chunk.insertedLines # <<>>
    /\ \E a \in {Accepted(chunk.deletedLines, chunk.insertedLines)} :
          chunk' = [chunk EXCEPT
              !.called = "analyzeChunk1",
              !.matches = SortByScore(ScanMatches(chunk.deletedLines,
                                                  chunk.insertedLines)),
              !.final = a.final,
              !.result = analyzeChunk1(chunk.deletedLines,
                                       chunk.insertedLines, 0, 0)]
    /\ UNCHANGED <<db, git, groups, published, notified, raised, crashes,
                   failures>>

\* analyzeChunk(deletedLines, insertedLines, moved)
AnalyzeChunk(moved) ==
    /\ chunk.called = "none"
    /\ chunk' = [chunk EXCEPT
           !.called = "analyzeChunk",
           !.moved = moved,
           !.analysis = analyzeChunk(chunk.deletedLines, chunk.insertedLines,
                                     moved)]
    /\ UNCHANGED <<db, git, groups, published, notified, raised, crashes,
                   failures>>

ChunkNext ==
    \/ AnalyzeChunk1
    \/ \E moved \in BOOLEAN : AnalyzeChunk(moved)

ChunkSpec == ChunkInit /\ [][ChunkNext]_vars

\* ---- the analysis of lines of code
\* Lines of code with changes of words and of white space (spaces, a tab, a
\* newline), one to a chunk.
CodeLines ==
    {<<"i", "n", "t", " ", "x", " ", "=", " ", "1", ";">>,
     <<"i", "n", "t", " ", "x", " ", "=", " ", "2", ";">>,
     <<"i", "n", "t", " ", " ", "x", " ", "=", " ", "1", "0", ";">>,
     <<"f", "o", "o", "\n">>,
     <<" ", "f", "o", "o", "\n">>,
     <<"\t", "f", "o", "o">>,
     <<"f", "o", "o", "\n", " ">>,
     <<" ", " ", "f", "o", "o">>}

\* Lines of one letter and a brace, up to MaxLines to a chunk.
LetterLines == {<<"a">>, <<"b">>, <<"c">>, <<"x">>, <<"}">>}

CodeChunks ==
    {<<line>> : line \in CodeLines}
        \cup UNION {[1..n -> LetterLines] : n \in 0..MaxLines}

CodeTables == TablesOf(CodeLines \cup LetterLines)

\* A worker is handed a chunk of these lines; the difference engine is idle.
CodeInit ==
    /\ db = InitDb(InitChangesets(FALSE), {}, {}, {Primary})
    /\ git = [c \in CS |-> {}]
    /\ groups = NoRows
    /\ published = [c \in CS |-> "none"]
    /\ notified = NoNotifications
    /\ raised = FALSE
    /\ crashes = 0
    /\ failures = 0
    /\ \E lines \in {CodeTables} :
       \E deletedLines \in CodeChunks : \E insertedLines \in CodeChunks :
          chunk = [NoChunk EXCEPT !.deletedLines = deletedLines,
                                  !.insertedLines = insertedLines,
                                  !.lines = lines]

CodeSpec == CodeInit /\ [][ChunkNext]_vars

\* ------------------------------------------------------------------ C17
\* The matches analyzeChunk1 accepted, and its candidates in the order of
\* their rank.
AcceptedPairs == {chunk.final[n] : n \in 1..Len(chunk.final)}

Ranked == chunk.matches

\* Two candidates that cannot both be accepted: they share a line or cross.
Conflict(m, x) ==
    \/ m.deletedIndex = x.deletedIndex
    \/ m.insertedIndex = x.insertedIndex
    \/ (m.deletedIndex < x.deletedIndex) # (m.insertedIndex < x.insertedIndex)

\* The candidate m is before the candidate x in the scan: d first, then i.
ScannedBefore(m, x) ==
    \/ m.deletedIndex < x.deletedIndex
    \/ m.deletedIndex = x.deletedIndex /\ m.insertedIndex < x.insertedIndex

\* C17: the word-matched pairs analyzeChunk1 accepts form a one-to-one,
\* non-crossing matching (no deleted and no inserted index is accepted twice,
\* and d1 < d2 iff i1 < i2 for two accepted pairs); the candidates are ranked
\* by descending score, equal scores in the order of the scan (d, then i),
\* and accepted greedily in that order: a candidate is accepted exactly when
\* it conflicts with no accepted candidate ranked before it, so that the
\* highest-scoring candidate is always accepted.
C17_GreedyMatching ==
    chunk.called = "analyzeChunk1" =>
        /\ \A m \in AcceptedPairs : \A x \in AcceptedPairs \ {m} :
               /\ m.deletedIndex # x.deletedIndex
               /\ m.insertedIndex # x.insertedIndex
               /\ (m.deletedIndex < x.deletedIndex)
                      <=> (m.insertedIndex < x.insertedIndex)
        /\ \A n \in 1..Len(Ranked) : \A k \in 1..(n - 1) :
               /\ ~Greater(Ranked[n].r, Ranked[k].r)
               /\ ~Greater(Ranked[k].r, Ranked[n].r)
                      => ScannedBefore(Ranked[k], Ranked[n])
        /\ \A n \in 1..Len(Ranked) :
               Ranked[n] \in AcceptedPairs
                   <=> \A k \in 1..(n - 1) :
                           Ranked[k] \in AcceptedPairs
                               => ~Conflict(Ranked[k], Ranked[n])
        /\ Ranked # <<>> => Ranked[1] \in AcceptedPairs
        /\ AcceptedPairs \subseteq {Ranked[n] : n \in 1..Len(Ranked)}

\* C17 witness: analyzeChunk1 has accepted two pairs, the first of them among
\* candidates of equal score, and has rejected a candidate that shares no
\* line with an accepted pair but crosses one.
C17_Witness ==
    /\ chunk.called = "analyzeChunk1"
    /\ Cardinality(AcceptedPairs) >= 2
    /\ Len(Ranked) >= 2
    /\ ~Greater(Ranked[1].r, Ranked[2].r)
    /\ \E n \in 1..Len(Ranked) :
          /\ Ranked[n] \notin AcceptedPairs
          /\ \E x \in AcceptedPairs :
                (Ranked[n].deletedIndex < x.deletedIndex)
                    # (Ranked[n].insertedIndex < x.insertedIndex)
          /\ \A x \in AcceptedPairs :
                /\ Ranked[n].deletedIndex # x.deletedIndex
                /\ Ranked[n].insertedIndex # x.insertedIndex

\* ------------------------------------------------------------------ C18
\* The records of analyzeChunk1's output.
Records == {chunk.result[n] : n \in 1..Len(chunk.result)}

\* The lines of a record are equal after stripping.
EqualStripped(rec) ==
    strip(chunk.deletedLines[rec.d + 1]) = strip(chunk.insertedLines[rec.i + 1])

\* C18: the records of analyzeChunk1's output are in strictly ascending
\* order of d and of i; the records of the accepted matches are all there,
\* and an equality pair (lines equal after stripping) is emitted only
\* strictly between its neighbouring records in both d and i, and is
\* otherwise dropped.
C18_Ascending ==
    chunk.called = "analyzeChunk1" =>
        /\ \A n \in 1..(Len(chunk.result) - 1) :
               /\ chunk.result[n].d < chunk.result[n + 1].d
               /\ chunk.result[n].i < chunk.result[n + 1].i
        /\ {<<rec.d, rec.i>> : rec \in {x \in Records : x.kind = "words"}}
               = {<<m.deletedIndex, m.insertedIndex>> : m \in AcceptedPairs}
        /\ \A rec \in Records : rec.kind = "equal" => EqualStripped(rec)

\* C18 witness: the output holds an equality pair between the records of
\* two accepted matches.
C18_Witness ==
    /\ chunk.called = "analyzeChunk1"
    /\ Len(chunk.result) = 3
    /\ chunk.result[1].kind = "words"
    /\ chunk.result[2].kind = "equal"
    /\ chunk.result[3].kind = "words"

\* ------------------------------------------------------------------ C19
\* C19 (as claimed): a line matching the conflict-marker pattern, on the
\* deleted or on the inserted side, appears in no record of analyzeChunk1's
\* output, and a line matching the ignore pattern appears in no record of an
\* accepted match (only in equality records).
C19_Original ==
    chunk.called = "analyzeChunk1" =>
        \A rec \in Records :
            /\ ~re_conflict(chunk.deletedLines[rec.d + 1])
            /\ ~re_conflict(chunk.insertedLines[rec.i + 1])
            /\ rec.kind = "words" =>
                   /\ ~re_ignore(chunk.deletedLines[rec.d + 1])
                   /\ ~re_ignore(chunk.insertedLines[rec.i + 1])

\* ------------------------------------------------------------------ C20
\* C20: analyzeChunk returns None iff the deleted or the inserted lines are
\* empty; for two chunks with lines it returns a string, the empty string
\* when the analysis has no record, never None.
C20_NoneIffEmpty ==
    chunk.called = "analyzeChunk" =>
        /\ chunk.analysis = {}
               <=> (chunk.deletedLines = <<>> \/ chunk.insertedLines = <<>>)
        /\ Cardinality(chunk.analysis) <= 1

\* C20 witness: analyzeChunk has returned the empty string for two chunks
\* with lines, and for moved lines.
C20_Witness ==
    /\ chunk.called = "analyzeChunk"
    /\ chunk.moved
    /\ Len(chunk.deletedLines) = MaxLines
    /\ chunk.insertedLines # <<>>
    /\ chunk.analysis = {<<>>}

\* ------------------------------------------------------------------ C21
\* The words of a tokenization, joined.
RECURSIVE Join(_)
Join(words) == IF words = <<>> THEN <<>> ELSE Head(words) \o Join(Tail(words))

\* The character offsets in the line at which a word of the tokenization
\* starts or the last one ends.
WordBoundaries(line, words) ==
    {k \in 0..Len(line) :
        \E n \in 0..Len(words) : Join(SubSeq(words, 1, n)) = SubSeq(line, 1, k)}

\* The ranges an item gives on the deleted and on the inserted line.
DeletedRange(item) ==
    IF item.tag \in {"r", "d"} THEN {<<item.range[1], item.range[2]>>} ELSE {}

InsertedRange(item) ==
    IF item.tag = "r" THEN {<<item.range[3], item.range[4]>>}
    ELSE IF item.tag = "i" THEN {<<item.range[1], item.range[2]>>} ELSE {}

\* The ranges are offsets of word boundaries in the line, in order.
RangesIn(ranges, line, words) ==
    \A g \in ranges :
        /\ g[1] \in WordBoundaries(line, words)
        /\ g[2] \in WordBoundaries(line, words)
        /\ 0 <= g[1]
        /\ g[1] <= g[2]
        /\ g[2] <= Len(line)

\* The items of a record of an accepted match without the "ws" mark, and the
\* tokenization its offsets are taken in.
DiffItems(rec) ==
    IF rec.items # <<>> /\ rec.items[1].tag = "ws" THEN Tail(rec.items)
    ELSE rec.items

Tokens(rec, line) ==
    IF rec.items # <<>> /\ rec.items[1].tag = "ws" THEN re_ws_words(line)
    ELSE re_words(line)

IntX(digits) == <<"i", "n", "t", " ", "x", " ", "=", " ">> \o digits \o <<";">>

\* C21: in a record of an accepted match every offset of an r, d or i item
\* is the sum of the lengths of the words before a word boundary of the
\* line's tokenization, so that 0 <= a <= b <= the length of the line, and
\* the items of a record are in ascending order of their offsets; the
\* deleted line "int x = 1;" and the inserted line "int x = 2;" give the
\* record 0=0:r8-9=8-9.
C21_WordOffsets ==
    chunk.called = "analyzeChunk1" =>
        /\ \A rec \in {x \in Records : x.kind = "words"} :
              LET deleted == chunk.deletedLines[rec.d + 1]
                  inserted == chunk.insertedLines[rec.i + 1]
                  items == DiffItems(rec)
              IN  /\ \A n \in 1..Len(items) :
                         /\ items[n].tag \in {"r", "d", "i"}
                         /\ RangesIn(DeletedRange(items[n]), deleted,
                                     Tokens(rec, deleted))
                         /\ RangesIn(InsertedRange(items[n]), inserted,
                                     Tokens(rec, inserted))
                  /\ \A n \in 1..Len(items) : \A k \in 1..(n - 1) :
                         /\ \A g \in DeletedRange(items[k]) :
                            \A h \in DeletedRange(items[n]) : g[2] <= h[1]
                         /\ \A g \in InsertedRange(items[k]) :
                            \A h \in InsertedRange(items[n]) : g[2] <= h[1]
        /\ /\ chunk.deletedLines = <<IntX(<<"1">>)>>
           /\ chunk.insertedLines = <<IntX(<<"2">>)>>
           => chunk.result
                  = <<Record("words", 0, 0,
                             <<[tag |-> "r", range |-> <<8, 9, 8, 9>>]>>)>>

\* C21 witness: analyzeChunk1 has compared "int x = 1;" with "int  x = 10;"
\* and the record holds two replacements, of the space and of the number.
C21_Witness ==
    /\ chunk.called = "analyzeChunk1"
    /\ chunk.deletedLines = <<IntX(<<"1">>)>>
    /\ chunk.insertedLines
           = <<<<"i", "n", "t", " ", " ", "x", " ", "=", " ", "1", "0", ";">>>>
    /\ Len(chunk.result) = 1
    /\ chunk.result[1].items
           = <<[tag |-> "r", range |-> <<3, 4, 3, 5>>],
               [tag |-> "r", range |-> <<8, 9, 9, 11>>]>>

\* ------------------------------------------------------------------ C22
\* The line is split into single spaces, single tabs, other runs of white
\* space and runs of other characters.
WhiteSpaceSplit(line) ==
    LET words == re_ws_words(line)
        White(w) == \A k \in 1..Len(w) : IsSpace(w[k])
        Other(w) == \A k \in 1..Len(w) : ~IsSpace(w[k])
    IN  /\ Join(words) = line
        /\ \A n \in 1..Len(words) :
               /\ words[n] # <<>>
               /\ \/ words[n] = <<" ">>
                  \/ words[n] = <<"\t">>
                  \/ White(words[n]) /\ words[n][1] \notin {" ", "\t"}
                  \/ Other(words[n])
        /\ \A n \in 1..(Len(words) - 1) :
               /\ ~(Other(words[n]) /\ Other(words[n + 1]))
               /\ White(words[n]) /\ Len(words[n]) > 1
                      => Other(words[n + 1])

\* C22: the record of an accepted pair whose lines differ but are equal
\* after stripping is d=i:ws,<difference>, the difference being that of the
\* two lines split into single spaces, single tabs, other runs of white
\* space and runs of other characters; the deleted line "foo\n" and the
\* inserted line " foo\n" give exactly 0=0:ws,i0-1.
C22_WhiteSpaceRecord ==
    chunk.called = "analyzeChunk1" =>
        /\ \A rec \in {x \in Records : x.kind = "words"} :
              LET deleted == chunk.deletedLines[rec.d + 1]
                  inserted == chunk.insertedLines[rec.i + 1]
              IN  IF deleted # inserted /\ strip(deleted) = strip(inserted)
                  THEN /\ WhiteSpaceSplit(deleted)
                       /\ WhiteSpaceSplit(inserted)
                       /\ Len(rec.items) >= 2
                       /\ rec.items
                              = <<ws>> \o lineDiffItems(re_ws_words(deleted),
                                                        re_ws_words(inserted))
                  ELSE \A n \in 1..Len(rec.items) : rec.items[n] # ws
        /\ /\ chunk.deletedLines = <<<<"f", "o", "o", "\n">>>>
           /\ chunk.insertedLines = <<<<" ", "f", "o", "o", "\n">>>>
           => chunk.result
                  = <<Record("words", 0, 0,
                             <<ws, [tag |-> "i", range |-> <<0, 1>>]>>)>>

\* C22 witness: analyzeChunk1 has compared "  foo" with "foo\n " and the
\* record is 0=0:ws,d0-2,i3-5.
C22_Witness ==
    /\ chunk.called = "analyzeChunk1"
    /\ chunk.deletedLines = <<<<" ", " ", "f", "o", "o">>>>
    /\ chunk.insertedLines = <<<<"f", "o", "o", "\n", " ">>>>
    /\ Len(chunk.result) = 1
    /\ chunk.result[1].kind = "words"
    /\ chunk.result[1].items[1] = ws

\* ------------------------------------------------------------------ C23
\* The length of the longest common suffix of the two chunks.
CommonSuffix ==
    LET nd == Len(chunk.deletedLines)
        ni == Len(chunk.insertedLines)
    IN  Cardinality({k \in 1..nd :
            /\ k <= ni
            /\ \A j \in 1..k :
                   chunk.deletedLines[nd - j + 1]
                       = chunk.insertedLines[ni - j + 1]})

\* The output as its pairs d=i and their items.
Output == [n \in 1..Len(chunk.result) |-> <<chunk.result[n].d, chunk.result[n].i, chunk.result[n].items>>]

\* C23: when analyzeChunk1 finds no candidate pair with a score above 0.5
\* and the last deleted line equals the last inserted line, its output is
\* one bare record d=i for each line of the longest common suffix of the two
\* chunks, in ascending order, and nothing else; when the last lines differ
\* the output is empty.  The deleted lines "a", "b", "c" and the inserted
\* lines "x", "b", "c" give 1=1;2=2.
C23_TrailingEqual ==
    chunk.called = "analyzeChunk1" =>
        /\ chunk.matches = <<>> =>
               Output = [k \in 1..CommonSuffix |->
                            <<Len(chunk.deletedLines) - CommonSuffix + k - 1,
                              Len(chunk.insertedLines) - CommonSuffix + k - 1,
                              <<>>>>]
        /\ /\ chunk.deletedLines = <<<<"a">>, <<"b">>, <<"c">>>>
           /\ chunk.insertedLines = <<<<"x">>, <<"b">>, <<"c">>>>
           => Output = <<<<1, 1, <<>>>>, <<2, 2, <<>>>>>>

\* C23 witness: analyzeChunk1 has found no candidate in two chunks of three
\* lines that differ in the first line and end with the same two lines, and
\* has put out two records.
C23_Witness ==
    /\ chunk.called = "analyzeChunk1"
    /\ chunk.matches = <<>>
    /\ Len(chunk.deletedLines) = 3
    /\ Len(chunk.insertedLines) = 3
    /\ chunk.deletedLines[1] # chunk.insertedLines[1]
    /\ Len(chunk.result) = 2

\* ------------------------------------------------------------------ C24
\* The changeset of the group and, for a primary merge changeset, its
\* reference changeset.
StructureChangesets(cs) ==
    {cs} \cup (IF db.changesets[cs].for_merge = db.changesets[cs].to_commit
               THEN {c \in DOMAIN db.changesets :
                        /\ db.changesets[c].to_commit
                               = db.changesets[cs].from_commit
                        /\ db.changesets[c].for_merge
                               = db.changesets[cs].for_merge}
               ELSE {})

Unprocessed(cs) == {c \in StructureChangesets(cs) : ~db.changesets[c].processed}

\* C24: as long as the group's changeset, or the reference changeset of a
\* primary merge changeset, has processed=false, calculate_remaining emits
\* only CalculateStructureDifference jobs, one for each of the two that is
\* unprocessed, emits no content or highlight job, commits no completion
\* flag and deletes no changesetfiles row.
C24_StructureOnly ==
    \A cs \in Callable :
    \A r \in {calculate_remaining(db, GroupOf(cs), cs)} :
        Unprocessed(cs) # {} =>
            /\ \A j \in r.emitted : j.kind = "structure"
            /\ {j.cs : j \in r.emitted} = Unprocessed(cs)
            /\ Cardinality(r.emitted) = Cardinality(Unprocessed(cs))
            /\ \A j \in r.grp.not_started \ GroupOf(cs).not_started :
                   j.kind = "structure"
            /\ r.db = db
            /\ r.commits = {}

\* C24 witness: calculate_remaining can be called for a primary merge
\* changeset that is processed and has files, while its reference changeset
\* is not processed and holds other files.
C24_Witness ==
    /\ IsMerge
    /\ Primary \in Callable
    /\ db.changesets[Primary].processed
    /\ ~db.changesets[Reference].processed
    /\ db.changesetfiles[Primary] # {}
    /\ git[Reference] # git[Primary]

\* ------------------------------------------------------------------ C25
\* The CalculateStructureDifference jobs among the jobs a call emits.
EmittedStructure(r) == {j \in r.emitted : j.kind = "structure"}

\* C25: the structure-difference job of a changeset with for_merge non-null
\* is emitted with queue_content=false and is_for_merge=true; for a primary
\* merge changeset whose reference changeset (merge base to the primary's
\* from_commit) is unprocessed a job for the reference is emitted, likewise
\* with queue_content=false and is_for_merge=true; hence no ExamineFiles job
\* of a merge changeset exists before phase B of the primary changeset has
\* filtered the file sets.  For a changeset with for_merge null,
\* queue_content is true iff it has a changesetcontentdifferences row.
C25_MergeStructureJobs ==
    /\ \A cs \in Callable :
       \A r \in {calculate_remaining(db, GroupOf(cs), cs)} :
          /\ ~db.changesets[cs].processed =>
                \E j \in EmittedStructure(r) : j.cs = cs
          /\ \A j \in EmittedStructure(r) :
                j.cs = cs =>
                    IF db.changesets[cs].for_merge # NULL
                    THEN ~j.queue_content /\ j.is_for_merge
                    ELSE /\ j.queue_content
                             = (cs \in DOMAIN db.changesetcontentdifferences)
                         /\ ~j.is_for_merge
          /\ (/\ db.changesets[cs].for_merge = db.changesets[cs].to_commit
              /\ \E c \in StructureChangesets(cs) \ {cs} :
                     ~db.changesets[c].processed) =>
                \E j \in EmittedStructure(r) : j.cs # cs
          /\ \A j \in EmittedStructure(r) :
                j.cs # cs =>
                    /\ db.changesets[cs].for_merge = db.changesets[cs].to_commit
                    /\ db.changesets[j.cs].to_commit
                           = db.changesets[cs].from_commit
                    /\ db.changesets[j.cs].for_merge
                           = db.changesets[cs].for_merge
                    /\ ~db.changesets[j.cs].processed
                    /\ ~j.queue_content
                    /\ j.is_for_merge
    /\ \A c \in DOMAIN groups : \A j \in JobsOf(groups[c]) :
          (j.kind = "examine" /\ db.changesets[j.cs].for_merge # NULL) =>
              /\ db.changesets[Primary].complete
              /\ db.changesetfiles[Primary] = db.changesetfiles[Reference]

\* C25 witness: calculate_remaining was called for a primary merge changeset
\* that has a changesetcontentdifferences row while it and its reference
\* changeset were both unprocessed; the group holds the two structure jobs,
\* and a further call emits them again.
C25_Witness ==
    /\ IsMerge
    /\ Primary \in DOMAIN groups
    /\ Primary \in DOMAIN db.changesetcontentdifferences
    /\ ~db.changesets[Primary].processed
    /\ ~db.changesets[Reference].processed
    /\ {j.cs : j \in {k \in JobsOf(groups[Primary]) : k.kind = "structure"}}
           = {Primary, Reference}
    /\ Cardinality(EmittedStructure(
           calculate_remaining(db, GroupOf(Primary), Primary))) = 2

\* C25 witness of the consequence: an ExamineFiles job of a merge changeset
\* is in its group after the file sets were filtered.
C25_ExamineAfterFilter ==
    \E c \in DOMAIN groups : \E j \in JobsOf(groups[c]) :
        /\ j.kind = "examine"
        /\ db.changesets[j.cs].for_merge # NULL
        /\ git[Primary] # git[Reference]

\* ------------------------------------------------------------------ C26
\* The groups that should_calculate_remaining is asked about: the group as
\* it is, and the group as the supervisor hands it over after a job in
\* flight has succeeded or failed.
FinishedGroups(cs) ==
    {groups[cs]}
    \cup {AfterSuccess(groups[cs], git, j) : j \in groups[cs].running}
    \cup {[groups[cs] EXCEPT !.running = @ \ {j}] : j \in groups[cs].running}
    \cup {[groups[cs] EXCEPT !.running = @ \ {j}, !.failed = @ \cup {Key(j)}] : j \in groups[cs].running}

NoneQueued(g, kinds) == ~\E j \in g.not_started : j.kind \in kinds

\* C26: should_calculate_remaining returns true whenever not_started holds
\* no CalculateStructureDifference job while structure_complete is false, or
\* no ExamineFiles/CalculateFileDifference job while content_complete is
\* false, whatever is still in flight; with both flags true it returns the
\* answer of JobGroup (nothing queued and nothing in flight).
C26_ShouldCalculateRemaining ==
    \A cs \in DOMAIN groups : \A g \in FinishedGroups(cs) :
        /\ (NoneQueued(g, {"structure"}) /\ ~g.structure_complete) =>
               should_calculate_remaining(g)
        /\ (NoneQueued(g, {"examine", "filediff"}) /\ ~g.content_complete) =>
               should_calculate_remaining(g)
        /\ (g.structure_complete /\ g.content_complete) =>
               should_calculate_remaining(g)
                   = (g.not_started = {} /\ g.running = {})

\* C26 witness: a job of a group has finished while another job of the group
\* is in flight and an AnalyzeChangedLines job is queued; no ExamineFiles or
\* CalculateFileDifference job is queued and content_complete is false, and
\* should_calculate_remaining returns true.
C26_Witness ==
    \E cs \in DOMAIN groups : \E j \in groups[cs].running :
        /\ AfterSuccess(groups[cs], git, j).running # {}
        /\ AfterSuccess(groups[cs], git, j).not_started # {}
        /\ AfterSuccess(groups[cs], git, j).structure_complete
        /\ ~AfterSuccess(groups[cs], git, j).content_complete
        /\ NoneQueued(AfterSuccess(groups[cs], git, j), {"examine", "filediff"})
        /\ should_calculate_remaining(AfterSuccess(groups[cs], git, j))

\* C26, the generic answer: both flags are true, jobs are queued or in
\* flight after a job has finished, and should_calculate_remaining returns
\* false.
C26_GenericWitness ==
    \E cs \in DOMAIN groups : \E j \in groups[cs].running :
        /\ AfterSuccess(groups[cs], git, j).structure_complete
        /\ AfterSuccess(groups[cs], git, j).content_complete
        /\ ~should_calculate_remaining(AfterSuccess(groups[cs], git, j))

\* ------------------------------------------------------------------ C27
\* The jobs that calculate_remaining derives when it is re-entered after
\* job j of the group of cs has succeeded, and that are in flight then.
Rederived(cs, j) ==
    IF should_calculate_remaining(AfterSuccess(groups[cs], git, j))
    THEN {k \in calculate_remaining(Run(db, git, j), AfterSuccess(groups[cs], git, j), cs).emitted :
             Key(k) \in Keys(groups[cs].running \ {j})}
    ELSE {}

\* C27: no job key is present twice in not_started and in_flight of a
\* group: the jobs of a group have distinct keys and no key is both queued
\* and in flight, so a job that calculate_remaining derives again from
\* unchanged rows while it is in flight is not queued or run again.
C27_NoDuplicateKeys ==
    \A cs \in DOMAIN groups :
        /\ Keys(groups[cs].not_started) \cap Keys(groups[cs].running) = {}
        /\ Cardinality(Keys(JobsOf(groups[cs]))) = Cardinality(JobsOf(groups[cs]))

\* C27 witness: a job succeeds, calculate_remaining is re-entered while a
\* CalculateFileDifference, AnalyzeChangedLines or SyntaxHighlightFile job
\* of the group is in flight, and derives that job again.
C27_Witness ==
    \E cs \in DOMAIN groups : \E j \in groups[cs].running :
        \E k \in Rederived(cs, j) : k.kind \in {"filediff", "analyze", "highlight"}

\* ------------------------------------------------------------------ C28
\* The result r of a call of calculate_remaining for cs is one of a call
\* that got past phase B: the queries gave their rows and the changeset and
\* its reference are processed.
PastPhaseB(cs, r) == Unprocessed(cs) = {} /\ ~r.raised

\* The ExamineFiles and CalculateFileDifference jobs that remain to emit
\* after the failed keys were removed.
EmittedContent(r) == {j \in r.emitted : j.kind \in {"examine", "filediff"}}

\* The update_changeset notifications of the call that are not about the
\* content difference: the one of phase B, and the one of phase D when no
\* SyntaxHighlightFile job remains.
OtherUpdates(cs, r) ==
    IF /\ \E dB \in {PhaseB(db, cs)} :
              /\ all_files_examined(dB, cs)
              /\ ~syntax_highlight_complete_before(dB, cs)
       /\ ~\E j \in r.emitted : j.kind = "highlight"
    THEN 2 ELSE 1

\* C28: in a call of calculate_remaining past phase B for a changeset with a
\* changesetcontentdifferences row, the row's complete is set to true, with
\* the group's content_complete flag and one update_changeset notification,
\* exactly when no ExamineFiles or CalculateFileDifference job remains to
\* emit after the failed keys were removed and the row's complete was false
\* before the call; when content jobs are emitted, or complete was already
\* true, the row and the flag are left as they were and no notification is
\* published for it.
C28_ContentComplete ==
    \A cs \in Callable \cap DOMAIN db.changesetcontentdifferences :
    \A r \in {calculate_remaining(db, GroupOf(cs), cs)} :
        PastPhaseB(cs, r) =>
            IF EmittedContent(r) = {} /\ ~db.changesetcontentdifferences[cs]
            THEN /\ r.db.changesetcontentdifferences[cs]
                 /\ r.grp.content_complete
                 /\ Len(r.notifications) = OtherUpdates(cs, r) + 1
            ELSE /\ r.db.changesetcontentdifferences
                        = db.changesetcontentdifferences
                 /\ r.grp.content_complete = GroupOf(cs).content_complete
                 /\ Len(r.notifications) = OtherUpdates(cs, r)

\* C28 witness: a call past phase B for a changeset with files finds every
\* file compared and complete false, and sets complete.
C28_Witness ==
    \E cs \in Callable \cap DOMAIN db.changesetcontentdifferences :
    \E r \in {calculate_remaining(db, GroupOf(cs), cs)} :
        /\ PastPhaseB(cs, r)
        /\ db.changesetfiles[cs] # {}
        /\ EmittedContent(r) = {}
        /\ ~db.changesetcontentdifferences[cs]
        /\ r.db.changesetcontentdifferences[cs]

\* C28, content jobs emitted: a call past phase B emits content jobs while
\* complete is false.
C28_JobsWitness ==
    \E cs \in Callable \cap DOMAIN db.changesetcontentdifferences :
    \E r \in {calculate_remaining(db, GroupOf(cs), cs)} :
        /\ PastPhaseB(cs, r)
        /\ EmittedContent(r) # {}
        /\ ~db.changesetcontentdifferences[cs]

\* C28, complete already true: a call past phase B that emits no content
\* job and has highlight work left.
C28_AlreadyWitness ==
    \E cs \in Callable \cap DOMAIN db.changesetcontentdifferences :
    \E r \in {calculate_remaining(db, GroupOf(cs), cs)} :
        /\ PastPhaseB(cs, r)
        /\ EmittedContent(r) = {}
        /\ db.changesetcontentdifferences[cs]
        /\ r.emitted # {}

\* ------------------------------------------------------------------ C29
\* The call with result r did phase D work for cs: it emitted a
\* SyntaxHighlightFile or DetectFileLanguages job, or wrote evaluated.
PhaseDWork(cs, r) ==
    \/ \E j \in r.emitted : j.kind \in HighlightKinds
    \/ r.db.changesethighlightrequests[cs].evaluated
           # db.changesethighlightrequests[cs].evaluated

\* A highlightfiles row of a file of cs has a language and is not
\* highlighted, in database d.
HighlightLeft(d, cs) ==
    \E f \in DOMAIN d.changesetfiledifferences[cs] :
    \E h \in d.changesetfiledifferences[cs][f].old_highlightfile
                 \cup d.changesetfiledifferences[cs][f].new_highlightfile :
        d.highlightfiles[h].language /\ ~d.highlightfiles[h].highlighted

\* C29: a call of calculate_remaining does phase D work (it emits
\* SyntaxHighlightFile or DetectFileLanguages jobs, or sets evaluated) only
\* if the scan for changesetfiles rows without a changesetfiledifferences
\* row, made after phase B, is empty, highlighting is requested, and it is
\* not the case that the request is evaluated and no highlightfile is left to
\* highlight; and for a changeset whose highlighting is not requested no
\* highlight job is in any group and evaluated is false.
C29_PhaseDGuard ==
    /\ \A cs \in Callable \cap DOMAIN db.changesethighlightrequests :
       \A r \in {calculate_remaining(db, GroupOf(cs), cs)} :
          PhaseDWork(cs, r) =>
              /\ Unprocessed(cs) = {}
              /\ \A f \in PhaseB(db, cs).changesetfiles[cs] :
                     f \in DOMAIN db.changesetfiledifferences[cs]
              /\ db.changesethighlightrequests[cs].requested
              /\ ~(/\ db.changesethighlightrequests[cs].evaluated
                   /\ ~HighlightLeft(PhaseB(db, cs), cs))
    /\ \A cs \in DOMAIN db.changesethighlightrequests :
          ~db.changesethighlightrequests[cs].requested =>
              /\ ~db.changesethighlightrequests[cs].evaluated
              /\ \A c \in DOMAIN groups : \A j \in JobsOf(groups[c]) :
                     j.cs = cs => j.kind \notin HighlightKinds

\* C29 witness: a call for a changeset with requested highlighting, every
\* file examined and a comparison still pending, emits DetectFileLanguages
\* jobs.
C29_Witness ==
    \E cs \in Callable \cap DOMAIN db.changesethighlightrequests :
    \E r \in {calculate_remaining(db, GroupOf(cs), cs)} :
        /\ \E j \in r.emitted : j.kind = "detect"
        /\ PendingFiles(db, cs) # {}

\* C29, not requested: a call for a changeset without requested
\* highlighting finds every file examined and does no phase D work.
C29_NotRequestedWitness ==
    \E cs \in Callable \cap DOMAIN db.changesethighlightrequests :
    \E r \in {calculate_remaining(db, GroupOf(cs), cs)} :
        /\ ~db.changesethighlightrequests[cs].requested
        /\ Unprocessed(cs) = {}
        /\ db.changesetfiles[cs] # {}
        /\ UnexaminedFiles(db, cs) = {}
        /\ ~PhaseDWork(cs, r)

\* C29, files not examined: a call past phase B for a changeset with
\* requested highlighting finds unexamined files and does no phase D work.
C29_UnexaminedWitness ==
    \E cs \in Callable \cap DOMAIN db.changesethighlightrequests :
    \E r \in {calculate_remaining(db, GroupOf(cs), cs)} :
        /\ db.changesethighlightrequests[cs].requested
        /\ Unprocessed(cs) = {}
        /\ ~r.raised
        /\ UnexaminedFiles(PhaseB(db, cs), cs) # {}
        /\ ~PhaseDWork(cs, r)

\* ------------------------------------------------------------------ C30
\* Phase D runs in a call of calculate_remaining for cs with result r.
PhaseDRuns(cs, r) ==
    /\ Unprocessed(cs) = {}
    /\ ~r.raised
    /\ UnexaminedFiles(PhaseB(db, cs), cs) = {}
    /\ db.changesethighlightrequests[cs].requested
    /\ ~(/\ db.changesethighlightrequests[cs].evaluated
         /\ ~HighlightLeft(PhaseB(db, cs), cs))

EmittedDetect(r) == {j \in r.emitted : j.kind = "detect"}

\* The call with result r sets evaluated of cs to true.
SetsEvaluated(cs, r) ==
    /\ ~db.changesethighlightrequests[cs].evaluated
    /\ r.db.changesethighlightrequests[cs].evaluated

\* The two versions of file f in changeset cs.
Versions(cs, f) ==
    {Sha(f, db.changesets[cs].from_commit), Sha(f, db.changesets[cs].to_commit)}

\* C30, the calls: a call of calculate_remaining sets evaluated to true iff
\* phase D runs, evaluated was false before the call and no
\* DetectFileLanguages job is left after the failed keys were removed;
\* DetectFileLanguages jobs are emitted only while evaluated is false, and
\* only for files with a version that has no highlightfile row.
C30_Calls ==
    \A cs \in Callable \cap DOMAIN db.changesethighlightrequests :
    \A r \in {calculate_remaining(db, GroupOf(cs), cs)} :
        /\ SetsEvaluated(cs, r)
              <=> /\ PhaseDRuns(cs, r)
                  /\ ~db.changesethighlightrequests[cs].evaluated
                  /\ EmittedDetect(r) = {}
        /\ EmittedDetect(r) # {} =>
              /\ PhaseDRuns(cs, r)
              /\ ~db.changesethighlightrequests[cs].evaluated
        /\ \A j \in EmittedDetect(r) : \A f \in j.files :
              \E h \in Versions(cs, f) : h \notin DOMAIN db.highlightfiles

\* evaluated of a changeset is not written back to false.
EvaluatedKept ==
    \A c \in DOMAIN db.changesethighlightrequests :
        db.changesethighlightrequests[c].evaluated =>
            db'.changesethighlightrequests[c].evaluated

\* C30: evaluated is set to true by a calculate_remaining call iff phase D
\* runs, evaluated was false before the call and the set of
\* DetectFileLanguages jobs left after the failed-key filter is empty;
\* DetectFileLanguages jobs are emitted only while evaluated is false and
\* skip the file versions that already have a highlightfile row; and
\* evaluated is never written back to false.
C30_Evaluated == []C30_Calls /\ [][EvaluatedKept]_vars

\* C30 witness: a call for a changeset with examined files, made when
\* highlightfile rows exist, finds no DetectFileLanguages job left and sets
\* evaluated.
C30_Witness ==
    \E cs \in Callable \cap DOMAIN db.changesethighlightrequests :
    \E r \in {calculate_remaining(db, GroupOf(cs), cs)} :
        /\ SetsEvaluated(cs, r)
        /\ DOMAIN db.changesetfiledifferences[cs] # {}
        /\ DOMAIN db.highlightfiles # {}

\* C30, jobs emitted: a call emits a DetectFileLanguages job and leaves
\* evaluated false.
C30_DetectWitness ==
    \E cs \in Callable \cap DOMAIN db.changesethighlightrequests :
    \E r \in {calculate_remaining(db, GroupOf(cs), cs)} :
        /\ EmittedDetect(r) # {}
        /\ ~r.db.changesethighlightrequests[cs].evaluated

\* C30, failed key: the only DetectFileLanguages job is removed by the
\* failed-key filter, and the call sets evaluated although a file version
\* has no highlightfile row.
C30_FailedWitness ==
    \E cs \in Callable \cap DOMAIN db.changesethighlightrequests :
    \E r \in {calculate_remaining(db, GroupOf(cs), cs)} :
        /\ SetsEvaluated(cs, r)
        /\ \E f \in DOMAIN db.changesetfiledifferences[cs] :
           \E h \in Versions(cs, f) : h \notin DOMAIN db.highlightfiles

\* ------------------------------------------------------------------ C31
\* C31 (as claimed): when phase B of a primary merge changeset pings the
\* runner (find_new_incomplete), the reference changeset's complete=true is
\* committed, so that the scan the ping triggers returns the reference
\* changeset when its content difference is incomplete.
C31_Original ==
    \A cs \in Callable :
    \A r \in {calculate_remaining(db, GroupOf(cs), cs)} :
        r.find_new =>
            /\ r.pinged_at.changesets[reference_id(db, cs)].complete
            /\ (/\ reference_id(db, cs) \in DOMAIN db.changesetcontentdifferences
                /\ ~db.changesetcontentdifferences[reference_id(db, cs)]) =>
                   reference_id(db, cs) \in find_incomplete(r.pinged_at)

\* C31, what the source does: the database committed when the runner is
\* pinged is the one the call found, and the reference changeset is complete
\* in the database the call leaves.
C31_PingInsideTransaction ==
    \A cs \in Callable :
    \A r \in {calculate_remaining(db, GroupOf(cs), cs)} :
        r.find_new =>
            /\ r.pinged_at = db
            /\ r.db.changesets[reference_id(db, cs)].complete
            /\ db.changesets[cs].for_merge = db.changesets[cs].to_commit

\* C31, the case: the first call past phase B of a primary merge changeset
\* whose reference changeset has an incomplete content difference; a scan of
\* the database committed at the ping does not return the reference
\* changeset, a scan of the database after the transaction does.
C31_Missed ==
    \E cs \in Callable :
    \E r \in {calculate_remaining(db, GroupOf(cs), cs)} :
        /\ r.find_new
        /\ ~db.changesets[reference_id(db, cs)].complete
        /\ reference_id(db, cs) \in DOMAIN db.changesetcontentdifferences
        /\ reference_id(db, cs) \notin find_incomplete(r.pinged_at)
        /\ reference_id(db, cs) \in find_incomplete(PhaseB(db, cs))

\* ------------------------------------------------------------------ C32
\* A call of calculate_remaining for a new group of cs queues no job and
\* leaves the database as it is.
NothingLeft(cs) ==
    \A r \in {calculate_remaining(db, NewGroup, cs)} :
        /\ ~r.raised
        /\ r.grp.not_started = {}
        /\ r.db = db

\* C32 (as claimed): when calculate_remaining for a changeset emits no job
\* and has nothing left to change, find_incomplete does not return the
\* changeset, whatever the failed job keys and the highlightfiles rows are.
C32_Original ==
    \A cs \in (DOMAIN db.changesets) \ (DOMAIN groups) :
        NothingLeft(cs) => cs \notin find_incomplete(db)

\* C32, a highlightfiles row without a language: the changeset is complete
\* and evaluated, no job has failed, every row with a language is
\* highlighted, calculate_remaining has nothing left, and find_incomplete
\* returns the changeset.
C32_LanguageNull ==
    \E cs \in (DOMAIN db.changesets) \ (DOMAIN groups) :
        /\ NothingLeft(cs)
        /\ cs \in find_incomplete(db)
        /\ db.changeseterrors[cs] = {}
        /\ db.changesets[cs].complete
        /\ db.changesethighlightrequests[cs].evaluated
        /\ ~HighlightLeft(db, cs)

\* C32, a failed structure job: the changeset is not processed, the key of
\* its CalculateStructureDifference job is a failed key, calculate_remaining
\* has nothing left, and find_incomplete returns the changeset.
C32_FailedStructure ==
    \E cs \in (DOMAIN db.changesets) \ (DOMAIN groups) :
        /\ NothingLeft(cs)
        /\ cs \in find_incomplete(db)
        /\ ~db.changesets[cs].processed

\* C32, a failed highlight job: a highlightfiles row with a language is not
\* highlighted, the key of its SyntaxHighlightFile job is a failed key,
\* calculate_remaining has nothing left, and find_incomplete returns the
\* changeset.
C32_FailedHighlight ==
    \E cs \in (DOMAIN db.changesets) \ (DOMAIN groups) :
        /\ NothingLeft(cs)
        /\ cs \in find_incomplete(db)
        /\ HighlightLeft(db, cs)

\* C32, what holds: a changeset with nothing left is not returned by
\* find_incomplete when none of its jobs has failed and every highlightfiles
\* row of its files is highlighted.
C32_Converged ==
    \A cs \in (DOMAIN db.changesets) \ (DOMAIN groups) :
        (/\ NothingLeft(cs)
         /\ db.changeseterrors[cs] = {}
         /\ \A f \in DOMAIN db.changesetfiledifferences[cs] :
            \A h \in db.changesetfiledifferences[cs][f].old_highlightfile
                         \cup db.changesetfiledifferences[cs][f].new_highlightfile :
                db.highlightfiles[h].highlighted)
            => cs \notin find_incomplete(db)

\* ------------------------------------- changesetchangedlines: block offsets
\* The rows of changesetchangedlines of one changeset: for each file its
\* blocks in "index" order; a block has its offset from the end of the
\* previous block, its lengths on the two sides, and whether analysis is
\* NULL.
MaxBlocks == 3
BlockOffsets == {1, 2}
DeleteLengths == {0, 3}
InsertLengths == {0, 2}

Block ==
    [offset : BlockOffsets, delete_length : DeleteLengths,
     insert_length : InsertLengths, needs_analysis : BOOLEAN]

BlockLists(n) == UNION {[1..k -> Block] : k \in 0..n}

\* SELECT DISTINCT file ... WHERE analysis IS NULL: the keys of per_file.
FilesWithUnanalyzed(table) ==
    {f \in DOMAIN table : \E k \in 1..Len(table[f]) : table[f][k].needs_analysis}

\* SELECT file, "index", "offset", ... WHERE file=ANY(file_ids) ORDER BY file,
\* "index": the rows of the files given, from file number `from` on.
RECURSIVE ChangedLinesRows(_, _, _)
ChangedLinesRows(table, file_ids, from) ==
    IF from > NFiles THEN <<>>
    ELSE (IF from \in file_ids
          THEN [k \in 1..Len(table[from]) |->
                   [file |-> from, index |-> k,
                    offset |-> table[from][k].offset,
                    delete_length |-> table[from][k].delete_length,
                    insert_length |-> table[from][k].insert_length,
                    needs_analysis |-> table[from][k].needs_analysis]]
          ELSE <<>>)
         \o ChangedLinesRows(table, file_ids, from + 1)

\* Mutant: the offsets are not set back to 0 at the first row of a file.
RestartOffsets_never(file_id, previous_file_id, delete_offset, insert_offset) == <<delete_offset, insert_offset>>

\* "if file_id != previous_file_id: delete_offset = insert_offset = 0"
RestartOffsets(file_id, previous_file_id, delete_offset, insert_offset) ==
    IF file_id # previous_file_id THEN <<0, 0>>
    ELSE <<delete_offset, insert_offset>>

\* ChangedLines(index, offset, delete_offset, ..., insert_offset, ...)
ChangedLines(row, delete_offset, insert_offset) ==
    [index |-> row.index, offset |-> row.offset,
     delete_offset |-> delete_offset, delete_length |-> row.delete_length,
     insert_offset |-> insert_offset, insert_length |-> row.insert_length]

\* The loop over the rows from row k on: per_file maps each file to the
\* blocks appended so far.
RECURSIVE ScanChangedLines(_, _, _, _, _, _)
ScanChangedLines(rows, k, previous_file_id, delete_offset, insert_offset, per_file) ==
    IF k > Len(rows) THEN per_file
    ELSE LET row == rows[k]
             restarted == RestartOffsets(row.file, previous_file_id,
                                         delete_offset, insert_offset)
             d == restarted[1] + row.offset
             i == restarted[2] + row.offset
             appended ==
                 IF row.needs_analysis
                 THEN [per_file EXCEPT
                          ![row.file] = Append(@, ChangedLines(row, d, i))]
                 ELSE per_file
         IN  ScanChangedLines(rows, k + 1, row.file,
                              d + row.delete_length, i + row.insert_length,
                              appended)

\* per_file after the two queries and the loop; previous_file_id starts as
\* None, here 0, which is no file.
BlocksPerFile(table) ==
    ScanChangedLines(
        ChangedLinesRows(table, FilesWithUnanalyzed(table), 1), 1, 0, 0, 0,
        [f \in FilesWithUnanalyzed(table) |-> <<>>])

\* The inputs: file 1 has up to MaxBlocks blocks, the other files up to one.
BlocksInit ==
    /\ db = InitDb(InitChangesets(FALSE), {}, {}, {Primary})
    /\ git = [c \in CS |-> {}]
    /\ groups = NoRows
    /\ published = [c \in CS |-> "none"]
    /\ notified = NoNotifications
    /\ raised = FALSE
    /\ crashes = 0
    /\ failures = 0
    /\ \E table \in [Files -> BlockLists(MaxBlocks)] :
          /\ \A f \in Files \ {1} : Len(table[f]) <= 1
          /\ chunk = [called |-> "none", table |-> table, per_file |-> <<>>]

\* The scan for unanalyzed blocks of calculate_remaining.
ScanBlocks ==
    /\ chunk.called = "none"
    /\ chunk' = [chunk EXCEPT !.called = "blocks",
                              !.per_file = BlocksPerFile(chunk.table)]
    /\ UNCHANGED <<db, git, groups, published, notified, raised, crashes,
                   failures>>

BlocksNext == ScanBlocks

BlocksSpec == BlocksInit /\ [][BlocksNext]_vars

\* ------------------------------------------------------------------ C33
\* The sum over the blocks before block k of a file of offset + length.
RECURSIVE EarlierSum(_, _, _)
EarlierSum(blocks, k, side) ==
    IF k <= 1 THEN 0
    ELSE EarlierSum(blocks, k - 1, side) + blocks[k - 1].offset
         + (IF side = "delete" THEN blocks[k - 1].delete_length
            ELSE blocks[k - 1].insert_length)

\* C33: after the scan, per_file has the files with at least one unanalyzed
\* block; the blocks of a file are its blocks with analysis NULL, in index
\* order, and each has delete_offset = its own offset + the sum over all
\* earlier blocks of the file, analyzed or not, of (offset + delete_length),
\* and insert_offset likewise with insert_length; the sums start at 0 for
\* each file.
C33_BlockOffsets ==
    chunk.called = "blocks" =>
        /\ DOMAIN chunk.per_file
               = {f \in Files : \E k \in 1..Len(chunk.table[f]) :
                                   chunk.table[f][k].needs_analysis}
        /\ \A f \in DOMAIN chunk.per_file :
              /\ {b.index : b \in {chunk.per_file[f][n] : n \in 1..Len(chunk.per_file[f])}}
                     = {k \in 1..Len(chunk.table[f]) : chunk.table[f][k].needs_analysis}
              /\ \A n \in 1..Len(chunk.per_file[f]) :
                    /\ n > 1 => chunk.per_file[f][n - 1].index
                                    < chunk.per_file[f][n].index
                    /\ chunk.per_file[f][n].offset
                           = chunk.table[f][chunk.per_file[f][n].index].offset
                    /\ chunk.per_file[f][n].delete_offset
                           = chunk.per_file[f][n].offset
                             + EarlierSum(chunk.table[f],
                                          chunk.per_file[f][n].index, "delete")
                    /\ chunk.per_file[f][n].insert_offset
                           = chunk.per_file[f][n].offset
                             + EarlierSum(chunk.table[f],
                                          chunk.per_file[f][n].index, "insert")

\* C33 witness: file 1 has an analyzed block with lengths between two
\* unanalyzed blocks, file 2 has an unanalyzed block, and the scan has run.
C33_Witness ==
    /\ chunk.called = "blocks"
    /\ Len(chunk.table[1]) = 3
    /\ chunk.table[1][1].needs_analysis
    /\ ~chunk.table[1][2].needs_analysis
    /\ chunk.table[1][2].delete_length # 0
    /\ chunk.table[1][3].needs_analysis
    /\ Len(chunk.per_file[1]) = 2
    /\ 2 \in DOMAIN chunk.per_file
    /\ chunk.per_file[1][2].delete_offset > chunk.per_file[1][2].insert_offset

\* ------------------------------------------------- chunks around LargeChunk
\* A chunk of n lines: n - 1 copies of one line and a last line.
Filled(line, n, last) == [k \in 1..n |-> IF k < n THEN line ELSE last]

\* Pairs of chunks with 9900 to 10201 pairs of lines: the deleted lines are
\* copies of one letter line and the inserted lines copies of another, and
\* the last lines differ in one word or in white space only.
LargePairs ==
    {<<Filled(d, n, last[1]), Filled(<<"b">>, m, last[2])>> :
        d \in {<<"a">>, <<"c">>}, n \in {100, 101}, m \in {99, 100, 101},
        last \in {<<<<"i", "n", "t", " ", "x", " ", "=", " ", "1", ";">>,
                    <<"i", "n", "t", " ", "x", " ", "=", " ", "2", ";">>>>,
                  <<<<"f", "o", "o", "\n">>, <<" ", "f", "o", "o", "\n">>>>}}

\* The inputs: the pairs of large chunks, and the pairs of chunks of CodeSpec.
WindowInit ==
    /\ db = InitDb(InitChangesets(FALSE), {}, {}, {Primary})
    /\ git = [c \in CS |-> {}]
    /\ groups = NoRows
    /\ published = [c \in CS |-> "none"]
    /\ notified = NoNotifications
    /\ raised = FALSE
    /\ crashes = 0
    /\ failures = 0
    /\ \E lines \in {CodeTables} :
       \E p \in LargePairs \cup (CodeChunks \X CodeChunks) :
          chunk = [NoChunk EXCEPT !.deletedLines = p[1],
                                  !.insertedLines = p[2],
                                  !.lines = lines]

WindowSpec == WindowInit /\ [][ChunkNext]_vars

\* ------------------------------------------------------------------ C34
\* The blocks of matching lines with n > 0, of the lines with white space
\* normalized.
LineBlocks(deletedLines, insertedLines) ==
    SelectSeq(get_matching_blocks(LinesNoWS(deletedLines),
                                  LinesNoWS(insertedLines)),
              LAMBDA b : b[3] > 0)

\* Where the window before block k starts: after block k - 1.
WindowStart(blocks, k) ==
    IF k = 1 THEN <<0, 0>>
    ELSE <<blocks[k - 1][1] + blocks[k - 1][3],
           blocks[k - 1][2] + blocks[k - 1][3]>>

\* analyzeChunk1 on the window of mismatched lines from (pi, pj) to (i, j),
\* when it is not empty on either side.
Mismatched(deletedLines, insertedLines, pi, pj, i, j) ==
    IF i > pi /\ j > pj
    THEN analyzeChunk1(SubSeq(deletedLines, pi + 1, i),
                       SubSeq(insertedLines, pj + 1, j), pi, pj)
    ELSE <<>>

\* The records of the windows from block k on, in window order; after the
\* last block comes the window up to the ends of the chunks.
RECURSIVE WindowRecords(_, _, _, _, _)
WindowRecords(blocks, deletedLines, insertedLines, moved, k) ==
    IF k > Len(blocks)
    THEN Mismatched(deletedLines, insertedLines,
                    WindowStart(blocks, k)[1], WindowStart(blocks, k)[2],
                    Len(deletedLines), Len(insertedLines))
    ELSE Mismatched(deletedLines, insertedLines,
                    WindowStart(blocks, k)[1], WindowStart(blocks, k)[2],
                    blocks[k][1], blocks[k][2])
         \o analyzeWhiteSpaceChanges(
                SubSeq(deletedLines, blocks[k][1] + 1,
                       blocks[k][1] + blocks[k][3]),
                SubSeq(insertedLines, blocks[k][2] + 1,
                       blocks[k][2] + blocks[k][3]),
                FALSE, blocks[k][1], blocks[k][2], moved)
         \o WindowRecords(blocks, deletedLines, insertedLines, moved, k + 1)

\* C34: for two chunks with lines, analyzeChunk returns analyzeChunk1 of the
\* whole chunks iff |D|*|I| <= 10000 and moved is false; otherwise it
\* returns the records of the windows between and in the matching blocks of
\* the white-space-normalized lines, in window order: analyzeChunk1 with the
\* window's offsets for every mismatched window that is not empty on either
\* side, analyzeWhiteSpaceChanges with full = moved for every matching
\* window; and analyzeChunk1 returns the empty string for |D|*|I| > 10000.
C34_Windows ==
    /\ (/\ chunk.called = "analyzeChunk"
        /\ chunk.deletedLines # <<>>
        /\ chunk.insertedLines # <<>>) =>
          chunk.analysis
              = {IF /\ Len(chunk.deletedLines) * Len(chunk.insertedLines) <= 10000
                    /\ ~chunk.moved
                 THEN analyzeChunk1(chunk.deletedLines, chunk.insertedLines, 0, 0)
                 ELSE WindowRecords(
                          LineBlocks(chunk.deletedLines, chunk.insertedLines),
                          chunk.deletedLines, chunk.insertedLines,
                          chunk.moved, 1)}
    /\ (/\ chunk.called = "analyzeChunk1"
        /\ Len(chunk.deletedLines) * Len(chunk.insertedLines) > 10000) =>
          chunk.result = <<>>

\* C34 witness: two chunks of 100 lines whose last lines differ in white
\* space only, moved false: the analysis is the one of analyzeChunk1, with
\* the word-matched record of the last lines.
C34_Witness ==
    /\ chunk.called = "analyzeChunk"
    /\ ~chunk.moved
    /\ Len(chunk.deletedLines) = 100
    /\ Len(chunk.insertedLines) = 100
    /\ \E rec \in chunk.analysis :
          /\ Len(rec) = 1
          /\ rec[1].kind = "words"
          /\ rec[1].d = 99
          /\ rec[1].i = 99
          /\ rec[1].items[1].tag = "ws"

\* C34, the large chunk: chunks of 101 and 100 lines whose last lines differ
\* in one word; the only window is the whole chunk, and the analysis is
\* empty.
C34_LargeWitness ==
    /\ chunk.called = "analyzeChunk"
    /\ ~chunk.moved
    /\ Len(chunk.deletedLines) = 101
    /\ Len(chunk.insertedLines) = 100
    /\ chunk.lines.candidates[<<chunk.deletedLines[101], chunk.insertedLines[100]>>]
    /\ LineBlocks(chunk.deletedLines, chunk.insertedLines) = <<>>
    /\ chunk.analysis = {<<>>}

\* C34, the windows: a moved chunk with a mismatched window, not empty on
\* either side, before a window of matching lines, and records for both.
C34_MovedWitness ==
    /\ chunk.called = "analyzeChunk"
    /\ chunk.moved
    /\ LineBlocks(chunk.deletedLines, chunk.insertedLines) # <<>>
    /\ LineBlocks(chunk.deletedLines, chunk.insertedLines)[1][1] > 0
    /\ LineBlocks(chunk.deletedLines, chunk.insertedLines)[1][2] > 0
    /\ \E rec \in chunk.analysis : Len(rec) >= 2

\* ---- the scores of pairs of lines
\* Lines whose pairs score below, at and above 0.5, by either formula; a
\* brace and a conflict marker.
ScoreLines ==
    {<<"a", "b", " ", "c", "d">>,
     <<"a", "b", " ", "e", "f">>,
     <<"a", "b", "c", " ", "d", "e", "f">>,
     <<"a", "b", "c", " ", "x">>,
     <<"a", "b", " ", "c", "d", " ", "e", "f">>,
     <<"a", "b", " ", "x", "x", "x", "x", "x", "x", "x", "x", "x", "x", " ",
       "e", "f">>,
     <<"i", "n", "t", " ", "x", " ", "=", " ", "1", ";">>,
     <<"i", "n", "t", " ", "x", " ", "=", " ", "2", ";">>,
     <<"{">>,
     <<"=", "=", "=", "=", "=", "=", "=">>}

ScoreTables == TablesOf(ScoreLines)

\* A worker is handed two chunks of one line; the difference engine is idle.
ScoreInit ==
    /\ db = InitDb(InitChangesets(FALSE), {}, {}, {Primary})
    /\ git = [c \in CS |-> {}]
    /\ groups = NoRows
    /\ published = [c \in CS |-> "none"]
    /\ notified = NoNotifications
    /\ raised = FALSE
    /\ crashes = 0
    /\ failures = 0
    /\ \E lines \in {ScoreTables} :
       \E deleted \in ScoreLines : \E inserted \in ScoreLines :
          chunk = [NoChunk EXCEPT !.deletedLines = <<deleted>>,
                                  !.insertedLines = <<inserted>>,
                                  !.lines = lines]

ScoreSpec == ScoreInit /\ [][ChunkNext]_vars

\* ------------------------------------------------------------------ C35
\* The matching blocks of the words of two lines, without the closing block
\* of length 0.
WordBlocks(deleted, inserted) ==
    SelectSeq(get_matching_blocks(re_words(deleted), re_words(inserted)),
              LAMBDA b : b[3] > 0)

\* The indices of the deleted words in the matching blocks.
MatchedWords(deleted, inserted) ==
    UNION {(b[1] + 1)..(b[1] + b[3]) :
              b \in {WordBlocks(deleted, inserted)[k] :
                        k \in 1..Len(WordBlocks(deleted, inserted))}}

\* The number of characters that are not white space in the first k words.
RECURSIVE MatchedLength(_, _, _)
MatchedLength(words, matched, k) ==
    IF k = 0 THEN 0
    ELSE MatchedLength(words, matched, k - 1)
             + (IF k \in matched THEN Len(NoWS(words[k])) ELSE 0)

\* The pair is scored: neither line matches the ignore pattern, and the
\* deleted line is not skipped as a conflict marker.
Scored(deleted, inserted) ==
    /\ ~re_ignore(deleted)
    /\ ~re_ignore(inserted)
    /\ ~re_conflict(deleted)

\* The claim for m matching characters, a and b characters: the pair is in
\* matches iff m/a > 0.5 when a > 5 with one matching block, iff
\* 2*m/(a+b) > 0.5 otherwise; the score has that value and no denominator
\* is zero.
ScoreClaim(m, a, b, blocks) ==
    /\ a > 0
    /\ a + b > 0
    /\ (chunk.matches # <<>>)
           = (IF a > 5 /\ blocks = 1 THEN 2 * m > a ELSE 2 * 2 * m > a + b)
    /\ chunk.matches # <<>> =>
          /\ chunk.matches[1].r[2] > 0
          /\ IF a > 5 /\ blocks = 1
             THEN chunk.matches[1].r[1] * a = m * chunk.matches[1].r[2]
             ELSE chunk.matches[1].r[1] * (a + b)
                      = 2 * m * chunk.matches[1].r[2]

\* C35: for a pair of lines that are not ignored, with m the total length of
\* the stripped words in the matching blocks of the word matcher and a and b
\* the numbers of characters other than white space of the deleted and the
\* inserted line, the pair is a candidate iff its score is strictly above
\* 0.5, where the score is m/a when a > 5 and there is exactly one matching
\* block and 2*m/(a+b) otherwise; exactly 0.5 is rejected, and the
\* denominator is never zero.
C35_Score ==
    (/\ chunk.called = "analyzeChunk1"
     /\ Len(chunk.deletedLines) = 1
     /\ Len(chunk.insertedLines) = 1
     /\ Scored(chunk.deletedLines[1], chunk.insertedLines[1])) =>
        ScoreClaim(MatchedLength(re_words(chunk.deletedLines[1]),
                                 MatchedWords(chunk.deletedLines[1],
                                              chunk.insertedLines[1]),
                                 Len(re_words(chunk.deletedLines[1]))),
                   Len(NoWS(chunk.deletedLines[1])),
                   Len(NoWS(chunk.insertedLines[1])),
                   Len(WordBlocks(chunk.deletedLines[1],
                                  chunk.insertedLines[1])))

\* C35 witness: "abc def" against "abc x": one matching block, 3 of 6
\* characters, a score of exactly 0.5 by m/a (0.6 by the other formula), and
\* the pair is rejected.
C35_Witness ==
    /\ chunk.called = "analyzeChunk1"
    /\ chunk.deletedLines = <<<<"a", "b", "c", " ", "d", "e", "f">>>>
    /\ chunk.insertedLines = <<<<"a", "b", "c", " ", "x">>>>
    /\ Len(WordBlocks(chunk.deletedLines[1], chunk.insertedLines[1])) = 1
    /\ chunk.lines.scores[<<chunk.deletedLines[1], chunk.insertedLines[1]>>]
           = <<3, 6>>
    /\ chunk.matches = <<>>
    /\ chunk.result = <<>>

\* C35, the other formula: "abc x" against "abc def" scores 6/10 and is a
\* candidate.
C35_TwiceWitness ==
    /\ chunk.called = "analyzeChunk1"
    /\ chunk.deletedLines = <<<<"a", "b", "c", " ", "x">>>>
    /\ chunk.insertedLines = <<<<"a", "b", "c", " ", "d", "e", "f">>>>
    /\ Len(chunk.matches) = 1
    /\ chunk.matches[1].r = <<6, 10>>

\* C35, two matching blocks: "ab cd ef" against "ab xxxxxxxxxx ef" has a > 5
\* and 4 of 6 characters matched, scores 8/20 and is rejected.
C35_TwoBlocksWitness ==
    /\ chunk.called = "analyzeChunk1"
    /\ chunk.deletedLines
           = <<<<"a", "b", " ", "c", "d", " ", "e", "f">>>>
    /\ Len(chunk.insertedLines[1]) = 16
    /\ Len(WordBlocks(chunk.deletedLines[1], chunk.insertedLines[1])) = 2
    /\ chunk.lines.scores[<<chunk.deletedLines[1], chunk.insertedLines[1]>>]
           = <<8, 20>>
    /\ chunk.matches = <<>>

\* C35, exactly 0.5 by 2*m/(a+b): "ab cd" against "ab ef" is rejected.
C35_HalfWitness ==
    /\ chunk.called = "analyzeChunk1"
    /\ chunk.deletedLines = <<<<"a", "b", " ", "c", "d">>>>
    /\ chunk.insertedLines = <<<<"a", "b", " ", "e", "f">>>>
    /\ chunk.lines.scores[<<chunk.deletedLines[1], chunk.insertedLines[1]>>]
           = <<4, 8>>
    /\ chunk.matches = <<>>

\* ---- windows of matching lines
\* Lines that differ in white space only.
WhiteLines ==
    {<<"f", "o", "o", "\n">>,
     <<" ", "f", "o", "o", "\n">>,
     <<"f", "o", "o">>}

WhiteTables == TablesOf(WhiteLines)

WhiteOffsets == {0, 1}

\* A worker is handed two windows of up to two lines, the offsets of the
\* windows and the two flags; the difference engine is idle.
WhiteInit ==
    /\ db = InitDb(InitChangesets(FALSE), {}, {}, {Primary})
    /\ git = [c \in CS |-> {}]
    /\ groups = NoRows
    /\ published = [c \in CS |-> "none"]
    /\ notified = NoNotifications
    /\ raised = FALSE
    /\ crashes = 0
    /\ failures = 0
    /\ \E lines \in {WhiteTables} :
       \E n \in 0..2 : \E m \in 0..2 :
       \E deletedLines \in [1..n -> WhiteLines] :
       \E insertedLines \in [1..m -> WhiteLines] :
          chunk = [called |-> "none", deletedLines |-> deletedLines,
                   insertedLines |-> insertedLines, at_eof |-> FALSE,
                   offsetA |-> 0, offsetB |-> 0, full |-> FALSE,
                   result |-> <<>>, lines |-> lines]

\* analyzeWhiteSpaceChanges(deletedLines, insertedLines, at_eof, offsetA,
\* offsetB, full)
AnalyzeWhiteSpaceChanges(at_eof, offsetA, offsetB, full) ==
    /\ chunk.called = "none"
    /\ chunk' = [chunk EXCEPT
           !.called = "analyzeWhiteSpaceChanges",
           !.at_eof = at_eof,
           !.offsetA = offsetA,
           !.offsetB = offsetB,
           !.full = full,
           !.result = analyzeWhiteSpaceChanges(
                          chunk.deletedLines, chunk.insertedLines, at_eof,
                          offsetA, offsetB, full)]
    /\ UNCHANGED <<db, git, groups, published, notified, raised, crashes,
                   failures>>

WhiteNext ==
    \E at_eof \in BOOLEAN : \E offsetA \in WhiteOffsets :
    \E offsetB \in WhiteOffsets : \E full \in BOOLEAN :
        AnalyzeWhiteSpaceChanges(at_eof, offsetA, offsetB, full)

WhiteSpec == WhiteInit /\ [][WhiteNext]_vars

\* ------------------------------------------------------------------ C36
\* The call is made on a window: as many deleted as inserted lines.
WindowAnalysed ==
    /\ chunk.called = "analyzeWhiteSpaceChanges"
    /\ Len(chunk.deletedLines) = Len(chunk.insertedLines)

\* The k-th pair of the window is identical.
Identical(k) == chunk.deletedLines[k + 1] = chunk.insertedLines[k + 1]

\* The pairs of the window that get a record by the claim.
WithRecord ==
    {k \in 0..(Len(chunk.deletedLines) - 1) :
        \/ ~Identical(k)
        \/ k = Len(chunk.deletedLines) - 1 /\ chunk.at_eof
        \/ chunk.full}

\* The record of the k-th pair by the claim.
ClaimedRecord(k) ==
    Record("white", k + chunk.offsetA, k + chunk.offsetB,
           IF ~Identical(k)
           THEN analyzeWhiteSpaceLine(chunk.deletedLines[k + 1],
                                      chunk.insertedLines[k + 1])
           ELSE IF k = Len(chunk.deletedLines) - 1 /\ chunk.at_eof
           THEN <<[tag |-> "eol", range |-> <<>>]>>
           ELSE <<>>)

\* The result is the records of the pairs that get one, in order.
PairRecords ==
    /\ Len(chunk.result) = Cardinality(WithRecord)
    /\ \A k \in WithRecord :
          chunk.result[Cardinality({h \in WithRecord : h < k}) + 1]
              = ClaimedRecord(k)

\* C36 as stated: for the k-th pair of a window analyzeWhiteSpaceChanges
\* emits (k+offsetA)=(k+offsetB) with the white-space difference when the
\* lines differ, with eol when they are identical, the pair is the last one
\* and at_eof is set, bare for an identical pair only when full is set, and
\* no record for identical pairs with full and at_eof unset.
C36_Original == WindowAnalysed => PairRecords

\* C36, amended: the records are the claimed ones, except that a window
\* none of whose pairs gets a record, with offsetA or offsetB other than 0,
\* gets the one bare record offsetA=offsetB.
C36_WhiteSpaceChanges ==
    WindowAnalysed =>
        IF WithRecord = {} /\ (chunk.offsetA # 0 \/ chunk.offsetB # 0)
        THEN chunk.result
                 = <<Record("white", chunk.offsetA, chunk.offsetB, <<>>)>>
        ELSE PairRecords

\* C36 witness: a window of two identical pairs at offsets 1 and 0, full and
\* at_eof unset, gets the record 1=0.
C36_Witness ==
    /\ WindowAnalysed
    /\ Len(chunk.deletedLines) = 2
    /\ \A k \in 0..1 : Identical(k)
    /\ ~chunk.full
    /\ ~chunk.at_eof
    /\ chunk.offsetA = 1
    /\ chunk.offsetB = 0
    /\ chunk.result = <<Record("white", 1, 0, <<>>)>>

\* C36, eol: at offsets 1 and 1 with at_eof set, a window of two pairs, the
\* first differing in white space and the last identical, gets 1=1 with the
\* difference and 2=2 with eol.
C36_EolWitness ==
    /\ WindowAnalysed
    /\ Len(chunk.deletedLines) = 2
    /\ ~Identical(0)
    /\ Identical(1)
    /\ chunk.at_eof
    /\ chunk.offsetA = 1
    /\ chunk.offsetB = 1
    /\ Len(chunk.result) = 2
    /\ chunk.result[1].d = 1
    /\ chunk.result[1].items # <<>>
    /\ chunk.result[2] = Record("white", 2, 2, <<[tag |-> "eol", range |-> <<>>]>>)

\* C36, full: identical pairs at offsets 0 with full set and at_eof unset
\* get bare records.
C36_FullWitness ==
    /\ WindowAnalysed
    /\ Len(chunk.deletedLines) = 2
    /\ \A k \in 0..1 : Identical(k)
    /\ chunk.full
    /\ ~chunk.at_eof
    /\ chunk.result = <<Record("white", 0, 0, <<>>), Record("white", 1, 1, <<>>)>>

\* C36, no record: the same window at offsets 0 with full unset gets none.
C36_NoneWitness ==
    /\ WindowAnalysed
    /\ Len(chunk.deletedLines) = 2
    /\ \A k \in 0..1 : Identical(k)
    /\ ~chunk.full
    /\ ~chunk.at_eof
    /\ chunk.offsetA = 0
    /\ chunk.offsetB = 0
    /\ chunk.result = <<>>

\* ---- CreateChangeset.ensure
\* At most MaxCalls calls are followed.
MaxCalls == 3

\* to_commit.repository: the commits a1, a2 and a3 are of one repository, b1
\* is of another.
RepositoryOf(commit) == IF commit = "b1" THEN "b" ELSE "a"

\* Rows of changesets that are not made by ensure: the reference changeset
\* and the primary changeset of the merge a3, both from a1 to a2 or to a3.
MergeRows ==
    {[repository |-> "a", from_commit |-> "a1", to_commit |-> "a2",
      for_merge |-> "a3", is_replay |-> FALSE],
     [repository |-> "a", from_commit |-> "a2", to_commit |-> "a3",
      for_merge |-> "a3", is_replay |-> FALSE]}

\* The arguments of the calls: to_commit, and from_commit of the same
\* repository or None.
EnsureArguments ==
    {a \in [from_commit : {NULL, "a1"}, to_commit : {"a2", "b1"},
            conflicts : BOOLEAN] :
        a.from_commit # NULL =>
            RepositoryOf(a.from_commit) = RepositoryOf(a.to_commit)}

\* Mutant: the query does not ask for for_merge IS NULL.
FindChangesetId_any_merge(changesets, from_commit, to_commit, conflicts) ==
    {id \in DOMAIN changesets :
        /\ changesets[id].repository = RepositoryOf(to_commit)
        /\ changesets[id].to_commit = to_commit
        /\ changesets[id].from_commit = from_commit
        /\ from_commit # NULL => changesets[id].is_replay = conflicts}

\* FindChangesetId.__call__: the ids the query selects.
FindChangesetId(changesets, from_commit, to_commit, conflicts) ==
    IF from_commit = NULL
    THEN {id \in DOMAIN changesets :
             /\ changesets[id].repository = RepositoryOf(to_commit)
             /\ changesets[id].to_commit = to_commit
             /\ changesets[id].from_commit = NULL
             /\ changesets[id].for_merge = NULL}
    ELSE {id \in DOMAIN changesets :
             /\ changesets[id].repository = RepositoryOf(to_commit)
             /\ changesets[id].to_commit = to_commit
             /\ changesets[id].from_commit = from_commit
             /\ changesets[id].for_merge = NULL
             /\ changesets[id].is_replay = conflicts}

\* CreateChangeset(transaction).insert(...): the new row; for_merge is not
\* given and is NULL.
InsertedChangeset(from_commit, to_commit, conflicts) ==
    [repository |-> RepositoryOf(to_commit), from_commit |-> from_commit,
     to_commit |-> to_commit, for_merge |-> NULL, is_replay |-> conflicts]

\* The table changesets holds the rows of a merge or is empty, and no call
\* was made; the difference engine is idle.
EnsureInit ==
    /\ \E changesets \in {<<>>} \cup {<<r>> : r \in MergeRows} :
          db = [changesets |-> changesets]
    /\ git = [c \in CS |-> {}]
    /\ groups = NoRows
    /\ published = [c \in CS |-> "none"]
    /\ notified = NoNotifications
    /\ raised = FALSE
    /\ crashes = 0
    /\ failures = 0
    /\ chunk = [called |-> "none", calls |-> <<>>]

\* CreateChangeset.ensure(transaction, from_commit, to_commit, conflicts);
\* maybe_scalar() gives the id of the one row selected, or None.
Ensure(from_commit, to_commit, conflicts) ==
    /\ Len(chunk.calls) < MaxCalls
    /\ \E found \in {FindChangesetId(db.changesets, from_commit, to_commit,
                                     conflicts)} :
          IF found # {}
          THEN /\ \E changeset_id \in found :
                     chunk' = [called |-> "ensure",
                               calls |-> Append(chunk.calls,
                                   [from_commit |-> from_commit,
                                    to_commit |-> to_commit,
                                    conflicts |-> conflicts,
                                    returned |-> changeset_id])]
               /\ db' = db
          ELSE /\ db' = [db EXCEPT !.changesets =
                            Append(@, InsertedChangeset(from_commit, to_commit,
                                                        conflicts))]
               /\ chunk' = [called |-> "ensure",
                            calls |-> Append(chunk.calls,
                                [from_commit |-> from_commit,
                                 to_commit |-> to_commit,
                                 conflicts |-> conflicts,
                                 returned |-> Len(db.changesets) + 1])]
    /\ UNCHANGED <<git, groups, published, notified, raised, crashes,
                   failures>>

EnsureNext ==
    \E a \in EnsureArguments : Ensure(a.from_commit, a.to_commit, a.conflicts)

EnsureSpec == EnsureInit /\ [][EnsureNext]_vars

\* ------------------------------------------------------------------ C37
\* The rows of the table that a call asks for: for_merge NULL, the same
\* repository, to_commit and from_commit, and is_replay = conflicts when
\* from_commit is given.
Asked(changesets, call) ==
    {id \in DOMAIN changesets :
        /\ changesets[id].for_merge = NULL
        /\ changesets[id].repository = RepositoryOf(call.to_commit)
        /\ changesets[id].to_commit = call.to_commit
        /\ changesets[id].from_commit = call.from_commit
        /\ call.from_commit # NULL =>
              changesets[id].is_replay = call.conflicts}

LastCall(c) == c.calls[Len(c.calls)]

SameArguments(call, other) ==
    /\ call.from_commit = other.from_commit
    /\ call.to_commit = other.to_commit
    /\ call.conflicts = other.conflicts

\* A call returns a row that was there when there was one, and leaves the
\* table alone; it adds one row, the one asked for, when there was none.
EnsureReturns ==
    Len(chunk'.calls) = Len(chunk.calls) + 1 =>
        IF Asked(db.changesets, LastCall(chunk')) # {}
        THEN /\ db' = db
             /\ LastCall(chunk').returned
                    \in Asked(db.changesets, LastCall(chunk'))
        ELSE /\ Len(db'.changesets) = Len(db.changesets) + 1
             /\ SubSeq(db'.changesets, 1, Len(db.changesets)) = db.changesets
             /\ LastCall(chunk').returned = Len(db'.changesets)
             /\ LastCall(chunk').returned
                    \in Asked(db'.changesets, LastCall(chunk'))

\* After a call there is exactly one row as asked for; a call with the
\* arguments of the call before it returned the same changeset; no call
\* returned a changeset with for_merge.
EnsureOnce ==
    chunk.called = "ensure" =>
        /\ Cardinality(Asked(db.changesets, LastCall(chunk))) = 1
        /\ \A n \in 2..Len(chunk.calls) :
              SameArguments(chunk.calls[n], chunk.calls[n - 1]) =>
                  chunk.calls[n].returned = chunk.calls[n - 1].returned
        /\ \A n \in 1..Len(chunk.calls) :
              db.changesets[chunk.calls[n].returned].for_merge = NULL

\* C37: CreateChangeset.ensure(from_commit, to_commit, conflicts) returns
\* the row with for_merge NULL for the same repository, to_commit and
\* from_commit (and is_replay = conflicts when from_commit is given) when
\* there is one, and inserts a row only when there is none; two calls in
\* sequence with the same arguments return the same changeset and leave
\* exactly one such row; a changeset with for_merge is never returned.
C37_Ensure == []EnsureOnce /\ [][EnsureReturns]_vars

\* C37 witness: beside the reference changeset of a merge from a1 to a2,
\* two calls in sequence for the changeset from a1 to a2: the first has
\* inserted row 2, the second has returned it.
C37_Witness ==
    /\ chunk.called = "ensure"
    /\ Len(chunk.calls) = 2
    /\ SameArguments(chunk.calls[1], chunk.calls[2])
    /\ chunk.calls[1].from_commit = "a1"
    /\ chunk.calls[1].to_commit = "a2"
    /\ db.changesets[1].for_merge = "a3"
    /\ db.changesets[1].from_commit = "a1"
    /\ db.changesets[1].to_commit = "a2"
    /\ Len(db.changesets) = 2
    /\ chunk.calls[1].returned = 2
    /\ chunk.calls[2].returned = 2

\* C37, no from_commit: a call with conflicts set after one without returns
\* the row of the first, whose is_replay is false.
C37_RootWitness ==
    /\ chunk.called = "ensure"
    /\ Len(chunk.calls) = 2
    /\ chunk.calls[1].from_commit = NULL
    /\ chunk.calls[2].from_commit = NULL
    /\ chunk.calls[1].to_commit = chunk.calls[2].to_commit
    /\ ~chunk.calls[1].conflicts
    /\ chunk.calls[2].conflicts
    /\ chunk.calls[2].returned = chunk.calls[1].returned
    /\ ~db.changesets[chunk.calls[2].returned].is_replay

\* ------------------------------------------------------------------ C38
\* The changesetcontentdifferences row of cs says complete.
ContentPersisted(d, cs) ==
    cs \in DOMAIN d.changesetcontentdifferences
        /\ d.changesetcontentdifferences[cs]

\* C38 as stated: after a call of calculate_remaining that got past phase B
\* the flags of the group agree with the database: structure_complete is
\* true once changesets.complete is; content_complete is true whenever the
\* call emitted no ExamineFiles or CalculateFileDifference job; and for a
\* changeset that is complete and content-complete should_calculate_remaining
\* no longer forces a re-inventory: it answers as JobGroup does.
C38_Original ==
    /\ \A cs \in DOMAIN groups :
          /\ db.changesets[cs].complete => groups[cs].structure_complete
          /\ (db.changesets[cs].complete /\ ContentPersisted(db, cs)) =>
                (should_calculate_remaining(groups[cs])
                     = JobGroup_should_calculate_remaining(groups[cs]))
    /\ \A cs \in Callable :
       \A r \in {calculate_remaining(db, GroupOf(cs), cs)} :
          (PastPhaseB(cs, r) /\ EmittedContent(r) = {}) =>
              r.grp.content_complete

\* C38, what holds: a flag of a group is true only when the database says
\* so (content_complete also when there is no changesetcontentdifferences
\* row), and a call past phase B that finds changesets.complete true sets
\* structure_complete.
C38_FlagsFollow ==
    /\ \A cs \in DOMAIN groups :
          /\ groups[cs].structure_complete => db.changesets[cs].complete
          /\ groups[cs].content_complete =>
                \/ cs \notin DOMAIN db.changesetcontentdifferences
                \/ db.changesetcontentdifferences[cs]
    /\ \A cs \in Callable :
       \A r \in {calculate_remaining(db, GroupOf(cs), cs)} :
          (PastPhaseB(cs, r) /\ db.changesets[cs].complete) =>
              r.grp.structure_complete

\* C38, the structure flag: the call that committed complete in phase B has
\* left structure_complete false, and the group goes on with content jobs.
C38_StructureLag ==
    \E cs \in DOMAIN groups :
        /\ db.changesets[cs].complete
        /\ ~groups[cs].structure_complete
        /\ \E j \in groups[cs].not_started : j.kind = "examine"

\* C38, the content flag: a group started for a changeset whose content
\* difference is complete emits no content job and its content_complete
\* stays false.
C38_ContentStuck ==
    \E cs \in DOMAIN groups :
        /\ db.changesets[cs].complete
        /\ ContentPersisted(db, cs)
        /\ groups[cs].structure_complete
        /\ ~groups[cs].content_complete
        /\ \A r \in {calculate_remaining(db, groups[cs], cs)} :
              /\ PastPhaseB(cs, r)
              /\ EmittedContent(r) = {}
              /\ ~r.grp.content_complete

\* C38, the re-inventory: for a complete and content-complete changeset with
\* jobs queued, should_calculate_remaining says true where JobGroup's says
\* false.
C38_Forced ==
    \E cs \in DOMAIN groups :
        /\ db.changesets[cs].complete
        /\ ContentPersisted(db, cs)
        /\ groups[cs].not_started # {}
        /\ should_calculate_remaining(groups[cs])
        /\ ~JobGroup_should_calculate_remaining(groups[cs])

\* ------------------------------------------------------------------ C39
\* The content jobs that a call emits.
ContentJobs(r) ==
    {j \in r.emitted : j.kind \in {"examine", "filediff", "analyze"}}

C39_JobsWithoutRow ==
    \E cs \in Callable \ DOMAIN db.changesetcontentdifferences :
    \E r \in {calculate_remaining(db, GroupOf(cs), cs)} :
        /\ PastPhaseB(cs, r)
        /\ \E j \in r.emitted : j.kind = "examine"

\* C39, the notification: a call for a changeset without the row, every file
\* of which is compared, sets content_complete and publishes
\* update_changeset for it.
C39_NotifiedWithoutRow ==
    \E cs \in Callable \ DOMAIN db.changesetcontentdifferences :
    \E r \in {calculate_remaining(db, GroupOf(cs), cs)} :
        /\ PastPhaseB(cs, r)
        /\ db.changesetfiles[cs] # {}
        /\ ContentJobs(r) = {}
        /\ r.grp.content_complete
        /\ Len(r.notifications) = OtherUpdates(cs, r) + 1

\* C39, what holds: no call adds a changesetcontentdifferences row.
C39_NoRowAdded ==
    \A cs \in Callable :
    \A r \in {calculate_remaining(db, GroupOf(cs), cs)} :
        DOMAIN r.db.changesetcontentdifferences
            = DOMAIN db.changesetcontentdifferences

\* ------------------------------------------------------------------ C40
\* The offsets analyzeChunk1 is called with: those of a whole chunk and
\* those of a window.
ChunkOffsets == {<<0, 0>>, <<2, 1>>}

\* Every record of the output is d=i with d and i in the ranges of the
\* chunks, and any two records differ in d and in i.
RecordsOnce(records, deletedLines, insertedLines, offsetA, offsetB) ==
    /\ \A n \in 1..Len(records) :
          /\ offsetA <= records[n].d
          /\ records[n].d < offsetA + Len(deletedLines)
          /\ offsetB <= records[n].i
          /\ records[n].i < offsetB + Len(insertedLines)
    /\ \A n \in 1..Len(records) : \A m \in 1..Len(records) :
          n # m => /\ records[n].d # records[m].d
                   /\ records[n].i # records[m].i

\* C40: in every output of analyzeChunk1(D, I, offsetA, offsetB) each record
\* d=i has offsetA <= d < offsetA + |D| and offsetB <= i < offsetB + |I|, and
\* no deleted index and no inserted index is in more than one record.
C40_RecordsOnce ==
    chunk.called = "analyzeChunk1" =>
        /\ RecordsOnce(chunk.result, chunk.deletedLines, chunk.insertedLines,
                       0, 0)
        /\ \A o \in ChunkOffsets :
              RecordsOnce(analyzeChunk1(chunk.deletedLines,
                                        chunk.insertedLines, o[1], o[2]),
                          chunk.deletedLines, chunk.insertedLines, o[1], o[2])

\* C40 witness: an output of three records, with a word-matched pair and a
\* pair of equal lines, for a deleted line that is a candidate for two
\* inserted lines; at offsets 2 and 1 the records are the same ones, moved.
C40_Witness ==
    /\ chunk.called = "analyzeChunk1"
    /\ Len(chunk.result) = 3
    /\ \E n \in 1..3 : chunk.result[n].kind = "words"
    /\ \E n \in 1..3 : chunk.result[n].kind # "words"
    /\ \E d \in 1..Len(chunk.deletedLines) :
          Cardinality({i \in 1..Len(chunk.insertedLines) :
                          Candidates[<<chunk.deletedLines[d],
                                       chunk.insertedLines[i]>>]}) = 2
    /\ \E moved \in {analyzeChunk1(chunk.deletedLines, chunk.insertedLines,
                                   2, 1)} :
          /\ Len(moved) = 3
          /\ \A n \in 1..3 : /\ moved[n].d = chunk.result[n].d + 2
                             /\ moved[n].i = chunk.result[n].i + 1

====
